---- MODULE Spec2Model ----
(***************************************************************************)
(* Model of the renamer naming core: the file-name codec of                *)
(* NamingValidator, the identifier conversions of CodeValidator, the       *)
(* convention detector and the syntax-tree classifier of ASTAnalyzer,      *)
(* the suggestions of SuggestionEngine, the FileWatcher, the               *)
(* ConfigManager and the rename command.                                   *)
(* Strings are sequences of one-character strings.                         *)
(***************************************************************************)
EXTENDS Integers, Sequences, FiniteSets, TLC

VARIABLES
    fname,            \* codec: the input name
    conv,             \* codec: the target convention
    op,               \* codec: the operation that produced res
    res,              \* codec: result of the last conversion
    prev,             \* codec: result of the conversion before the last one
    identifier,       \* validator: the CodeIdentifier under validation
    config,           \* validator: the CodeConventionConfig
    outcome,          \* validator: the CodeValidationResult, once computed
    fixes,            \* validator: the list suggestFixes returned, once computed
    names,            \* detector: the list of file names
    permuted,         \* detector: the same names in another order
    detected,         \* detector: detectConvention(names), once computed
    detectedPermuted, \* detector: detectConvention(permuted), once computed
    tree,             \* analyzer: the syntax tree the parser returned for the file
    analyzed,         \* analyzer: whether the tree has been walked
    identifiers,      \* analyzer: the CodeIdentifier list of the file
    batch,            \* batch: the CodeIdentifier list under validation
    summary,          \* batch: the CodeValidationSummary, once computed
    disk,             \* project: what each file under rootPath holds
    patterns,         \* project: the glob patterns, each as the set of files it matches
    project,          \* project: the CodeAnalysisResult, once computed
    exceptions,       \* files: the exceptions list of the configuration
    validation,       \* files: the ValidationResult, once computed
    suggestion,       \* files: the SuggestionResult, once computed
    ranking,          \* files: the SuggestionResult list of suggestMultipleNames, once computed
    heap,             \* traversal: the objects of the parsed file and their links
    frames,           \* traversal: the calls of extractIdentifiersFromNode in progress
    visited,          \* traversal: the objects the calls were made on, in call order
    found,            \* traversal: the declarations pushed to identifiers
    status,           \* traversal: where the traversal stands
    watcher,          \* watcher: this.watcher: the number of the chokidar watcher in handles, or NoWatcher
    filePatterns,     \* watcher: this.filePatterns
    handles,          \* watcher: every watcher chokidar.watch has returned, in order
    emitted,          \* watcher: the events the FileWatcher has emitted, in order
    console,          \* watcher: the lines printed to the console, in order
    configFile,       \* settings: the text of naming.config, or NoFile
    savedConfig,      \* settings: the NamingConfig of the last saveConfig
    loadedConfig,     \* settings: what loadConfig returned since the last saveConfig
    directory,        \* rename: the names the directory holds and the file under each
    options,          \* rename: the options of the rename command
    filesToRename,    \* rename: the renames collected, in order
    position,         \* rename: the place in filesToRename of the next rename
    tally,            \* rename: the counts the command reports
    renamed,          \* rename: the renames carried out, with the file each one replaced
    stage             \* rename: where the command stands

codecVars == <<fname, conv, op, res, prev>>
validateVars == <<identifier, config, outcome, fixes>>
detectVars == <<names, permuted, detected, detectedPermuted>>
astVars == <<tree, analyzed, identifiers>>
batchVars == <<batch, summary>>
projectVars == <<disk, patterns, project>>
fileVars == <<exceptions, validation, suggestion, ranking>>
walkVars == <<heap, frames, visited, found, status>>
watchVars == <<watcher, filePatterns, handles, emitted, console>>
settingsVars == <<configFile, savedConfig, loadedConfig>>
renameVars == <<directory, options, filesToRename, position, tally, renamed, stage>>

vars == <<codecVars, validateVars, detectVars, astVars, batchVars, projectVars, fileVars, walkVars, watchVars, settingsVars, renameVars>>

\* what the operations of one component leave alone
nonCodecVars ==
    <<validateVars,
      detectVars,
      astVars,
      batchVars,
      projectVars,
      fileVars,
      walkVars,
      watchVars,
      settingsVars,
      renameVars>>
nonValidateVars ==
    <<codecVars,
      detectVars,
      astVars,
      batchVars,
      projectVars,
      fileVars,
      walkVars,
      watchVars,
      settingsVars,
      renameVars>>
nonDetectVars ==
    <<codecVars,
      validateVars,
      astVars,
      batchVars,
      projectVars,
      fileVars,
      walkVars,
      watchVars,
      settingsVars,
      renameVars>>
nonAstVars ==
    <<codecVars,
      validateVars,
      detectVars,
      batchVars,
      projectVars,
      fileVars,
      walkVars,
      watchVars,
      settingsVars,
      renameVars>>
nonBatchVars ==
    <<codecVars,
      identifier,
      outcome,
      fixes,
      detectVars,
      astVars,
      projectVars,
      fileVars,
      walkVars,
      watchVars,
      settingsVars,
      renameVars>>
nonProjectVars ==
    <<codecVars,
      validateVars,
      detectVars,
      astVars,
      batchVars,
      fileVars,
      walkVars,
      watchVars,
      settingsVars,
      renameVars>>
nonFileVars ==
    <<op,
      res,
      prev,
      validateVars,
      detectVars,
      astVars,
      batchVars,
      projectVars,
      walkVars,
      watchVars,
      settingsVars,
      renameVars>>
nonWalkVars ==
    <<codecVars,
      validateVars,
      detectVars,
      astVars,
      batchVars,
      projectVars,
      fileVars,
      watchVars,
      settingsVars,
      renameVars>>
nonWatchVars ==
    <<codecVars,
      validateVars,
      detectVars,
      astVars,
      batchVars,
      projectVars,
      fileVars,
      walkVars,
      settingsVars,
      renameVars>>
nonSettingsVars ==
    <<codecVars,
      validateVars,
      detectVars,
      astVars,
      batchVars,
      projectVars,
      fileVars,
      walkVars,
      watchVars,
      renameVars>>
nonRenameVars ==
    <<fname,
      op,
      res,
      prev,
      validateVars,
      detectVars,
      astVars,
      batchVars,
      projectVars,
      validation,
      suggestion,
      ranking,
      walkVars,
      watchVars,
      settingsVars>>

\* ------------------------------------------------------------------------
\* Bounds
\* ------------------------------------------------------------------------
MaxLen == 3
MaxIdLen == 3
MaxNames == 3
MaxDepth == 2
MaxBatch == 2
MaxPatterns == 2
MaxNodes == 4

\* ------------------------------------------------------------------------
\* Characters
\* ------------------------------------------------------------------------
LetterPairs ==
    { <<"a", "A">>, <<"b", "B">>, <<"d", "D">>, <<"e", "E">>, <<"f", "F">>,
      <<"i", "I">>, <<"n", "N">>, <<"u", "U">> }

LowerLetters == { p[1] : p \in LetterPairs }
UpperLetters == { p[2] : p \in LetterPairs }
Digits == { "1" }

IsLower(c) == c \in LowerLetters
IsUpper(c) == c \in UpperLetters
IsDigit(c) == c \in Digits
IsSpace(c) == c = " "

\* String.prototype.toLowerCase / toUpperCase on one character
ToLowerChar(c) ==
    IF IsUpper(c) THEN (CHOOSE p \in LetterPairs : p[2] = c)[1] ELSE c

ToUpperChar(c) ==
    IF IsLower(c) THEN (CHOOSE p \in LetterPairs : p[1] = c)[2] ELSE c

toLowerCase(s) == [i \in 1..Len(s) |-> ToLowerChar(s[i])]
toUpperCase(s) == [i \in 1..Len(s) |-> ToUpperChar(s[i])]

\* the characters input names are drawn from
FileChars == { "a", "b", "A", "B", "1", "_", "-", " ", ".", "$" }

RECURSIVE StringsUpTo(_, _)
StringsUpTo(chars, n) ==
    IF n = 0 THEN { <<>> }
    ELSE LET shorter == StringsUpTo(chars, n - 1)
         IN  shorter \cup { Append(s, c) : s \in shorter, c \in chars }

FileNames == StringsUpTo(FileChars, MaxLen)

\* the value of a JavaScript `undefined` concatenated into a string
UndefinedText == << "u", "n", "d", "e", "f", "i", "n", "e", "d" >>

\* ------------------------------------------------------------------------
\* types/index.ts
\* ------------------------------------------------------------------------
\* in the key order of CONVENTION_PATTERNS
ConventionOrder ==
    << "camelCase", "snake_case", "kebab-case", "PascalCase", "UPPER_SNAKE_CASE" >>

NamingConvention == { ConventionOrder[i] : i \in 1..Len(ConventionOrder) }

\* ------------------------------------------------------------------------
\* NamingValidator (core/naming-validator.ts)
\* ------------------------------------------------------------------------
RestAll(s, ok(_)) == \A i \in 2..Len(s) : ok(s[i])

IsAlnum(c) == IsLower(c) \/ IsUpper(c) \/ IsDigit(c)
IsSnakeChar(c) == IsLower(c) \/ IsDigit(c) \/ c = "_"
IsKebabChar(c) == IsLower(c) \/ IsDigit(c) \/ c = "-"
IsUpperSnakeChar(c) == IsUpper(c) \/ IsDigit(c) \/ c = "_"

\* CONVENTION_PATTERNS[convention].test(s)
CONVENTION_PATTERNS(convention, s) ==
    /\ Len(s) > 0
    /\ CASE convention = "camelCase"        -> IsLower(s[1]) /\ RestAll(s, IsAlnum)
         [] convention = "snake_case"       -> IsLower(s[1]) /\ RestAll(s, IsSnakeChar)
         [] convention = "kebab-case"       -> IsLower(s[1]) /\ RestAll(s, IsKebabChar)
         [] convention = "PascalCase"       -> IsUpper(s[1]) /\ RestAll(s, IsAlnum)
         [] convention = "UPPER_SNAKE_CASE" -> IsUpper(s[1]) /\ RestAll(s, IsUpperSnakeChar)

\* filename.lastIndexOf('.'), 1-based; 0 when there is no dot
LastDotIndex(s) ==
    LET dots == { i \in 1..Len(s) : s[i] = "." }
    IN  IF dots = {} THEN 0 ELSE CHOOSE i \in dots : \A j \in dots : j <= i

\* lastDotIndex > 0 in 0-based indexing is LastDotIndex > 1 here
getBaseName(filename) ==
    IF LastDotIndex(filename) > 1
    THEN SubSeq(filename, 1, LastDotIndex(filename) - 1)
    ELSE filename

getExtension(filename) ==
    IF LastDotIndex(filename) > 1
    THEN SubSeq(filename, LastDotIndex(filename), Len(filename))
    ELSE <<>>

\* .replace(/([a-z])([A-Z])/g, '$1 $2'): matches do not overlap
RECURSIVE SplitCamel(_)
SplitCamel(s) ==
    IF Len(s) < 2 THEN s
    ELSE IF IsLower(s[1]) /\ IsUpper(s[2])
         THEN << s[1], " ", s[2] >> \o SplitCamel(SubSeq(s, 3, Len(s)))
         ELSE << s[1] >> \o SplitCamel(Tail(s))

\* .replace(/[_-]/g, ' ')
SeparatorsToSpace(s) ==
    [i \in 1..Len(s) |-> IF s[i] \in { "_", "-" } THEN " " ELSE s[i]]

\* .split(/\s+/): the tokens between maximal runs of whitespace, empty ones kept
RECURSIVE SplitOnSpace(_, _)
SplitOnSpace(s, cur) ==
    IF s = <<>> THEN << cur >>
    ELSE IF IsSpace(s[1])
         THEN IF Len(s) > 1 /\ IsSpace(s[2])
              THEN SplitOnSpace(Tail(s), cur)
              ELSE << cur >> \o SplitOnSpace(Tail(s), <<>>)
         ELSE SplitOnSpace(Tail(s), Append(cur, s[1]))

extractWords(name) ==
    SelectSeq(SplitOnSpace(SeparatorsToSpace(SplitCamel(name)), <<>>),
              LAMBDA word : Len(word) > 0)

capitalize(word) ==
    IF word = <<>> THEN <<>>
    ELSE << ToUpperChar(word[1]) >> \o toLowerCase(Tail(word))

\* Array.prototype.join
RECURSIVE join(_, _)
join(words, sep) ==
    IF words = <<>> THEN <<>>
    ELSE IF Len(words) = 1 THEN words[1]
         ELSE words[1] \o sep \o join(Tail(words), sep)

MapSeq(f(_), words) == [i \in 1..Len(words) |-> f(words[i])]

\* words[0]?.toLowerCase() is undefined for no words, and undefined + '' is
\* the text "undefined"
convertToConvention(name, convention) ==
    LET baseName == getBaseName(name)
        words == extractWords(baseName)
    IN  CASE convention = "camelCase" ->
               (IF words = <<>> THEN UndefinedText ELSE toLowerCase(words[1]))
               \o join(MapSeq(capitalize, IF words = <<>> THEN <<>> ELSE Tail(words)), <<>>)
          [] convention = "snake_case" -> join(MapSeq(toLowerCase, words), << "_" >>)
          [] convention = "kebab-case" -> join(MapSeq(toLowerCase, words), << "-" >>)
          [] convention = "PascalCase" -> join(MapSeq(capitalize, words), <<>>)
          [] convention = "UPPER_SNAKE_CASE" -> join(MapSeq(toUpperCase, words), << "_" >>)
          [] OTHER -> baseName

\* ------------------------------------------------------------------------
\* CodeValidator (core/code-validator.ts)
\* ------------------------------------------------------------------------
IsWordBreak(c) == c \in { "-", "_" } \/ IsSpace(c)

\* .replace(/[-_\s]+(.)?/g, (_, char) => char ? char.toUpperCase() : '')
RECURSIVE UpperAfterBreaks(_)
UpperAfterBreaks(s) ==
    IF s = <<>> THEN <<>>
    ELSE IF IsWordBreak(s[1])
         THEN IF Len(s) = 1 THEN <<>>
              ELSE IF IsWordBreak(s[2]) THEN UpperAfterBreaks(Tail(s))
                   ELSE << ToUpperChar(s[2]) >> \o UpperAfterBreaks(SubSeq(s, 3, Len(s)))
         ELSE << s[1] >> \o UpperAfterBreaks(Tail(s))

convertToCamelCase(name) ==
    LET joined == UpperAfterBreaks(name)
    IN  IF joined # <<>> /\ IsUpper(joined[1])
        THEN << ToLowerChar(joined[1]) >> \o Tail(joined)
        ELSE joined

convertToPascalCase(name) ==
    LET joined == UpperAfterBreaks(name)
    IN  IF joined # <<>> /\ IsLower(joined[1])
        THEN << ToUpperChar(joined[1]) >> \o Tail(joined)
        ELSE joined

\* .replace(/([A-Z])/g, sep + '$1')
RECURSIVE PrefixUpper(_, _)
PrefixUpper(s, sep) ==
    IF s = <<>> THEN <<>>
    ELSE (IF IsUpper(s[1]) THEN << sep, s[1] >> ELSE << s[1] >>)
         \o PrefixUpper(Tail(s), sep)

\* .replace(/[...]+/g, sep): every maximal run of characters of `run` becomes one sep
RECURSIVE CollapseRuns(_, _, _)
CollapseRuns(s, run, sep) ==
    IF s = <<>> THEN <<>>
    ELSE IF s[1] \in run
         THEN IF Len(s) > 1 /\ s[2] \in run
              THEN CollapseRuns(Tail(s), run, sep)
              ELSE << sep >> \o CollapseRuns(Tail(s), run, sep)
         ELSE << s[1] >> \o CollapseRuns(Tail(s), run, sep)

\* .replace(/^_/, '') and .replace(/^-/, '')
DropLeading(s, c) == IF s # <<>> /\ s[1] = c THEN Tail(s) ELSE s

convertToSnakeCase(name) ==
    toLowerCase(DropLeading(CollapseRuns(PrefixUpper(name, "_"), { "-", " " }, "_"), "_"))

convertToKebabCase(name) ==
    toLowerCase(DropLeading(CollapseRuns(PrefixUpper(name, "-"), { "_", " " }, "-"), "-"))

convertToConstantCase(name) ==
    toUpperCase(DropLeading(CollapseRuns(PrefixUpper(name, "_"), { "-", " " }, "_"), "_"))

CodeValidator_convertToConvention(name, convention) ==
    CASE convention = "camelCase" -> convertToCamelCase(name)
      [] convention = "PascalCase" -> convertToPascalCase(name)
      [] convention = "snake_case" -> convertToSnakeCase(name)
      [] convention = "kebab-case" -> convertToKebabCase(name)
      [] convention = "UPPER_SNAKE_CASE" -> convertToConstantCase(name)
      [] OTHER -> name

\* mutant: patterns that let the empty name through (/^[a-z]*...$/)
validateConvention_EmptyMatches(name, convention) ==
    name = <<>> \/ CONVENTION_PATTERNS(convention, name)

validateConvention(name, convention) ==
    CASE convention = "camelCase" ->
           Len(name) > 0 /\ IsLower(name[1]) /\ RestAll(name, IsAlnum)
      [] convention = "PascalCase" ->
           Len(name) > 0 /\ IsUpper(name[1]) /\ RestAll(name, IsAlnum)
      [] convention = "snake_case" ->
           Len(name) > 0 /\ IsLower(name[1]) /\ RestAll(name, IsSnakeChar)
      [] convention = "kebab-case" ->
           Len(name) > 0 /\ IsLower(name[1]) /\ RestAll(name, IsKebabChar)
      [] convention = "UPPER_SNAKE_CASE" ->
           Len(name) > 0 /\ IsUpper(name[1]) /\ RestAll(name, IsUpperSnakeChar)
      [] OTHER -> TRUE

\* ------------------------------------------------------------------------
\* The codec as a state machine: one name and one convention, converted by
\* either class and then converted again from its own output
\* ------------------------------------------------------------------------
NoResult == << "<none>" >>

\* NamingValidator.convertToConvention(fname, conv)
NVConvert ==
    /\ op = "none"
    /\ op' = "nvConvert"
    /\ res' = convertToConvention(fname, conv)
    /\ UNCHANGED <<fname, conv, prev>>
    /\ UNCHANGED nonCodecVars

\* NamingValidator.convertToConvention applied to its own result
NVReconvert ==
    /\ op = "nvConvert"
    /\ op' = "nvReconvert"
    /\ prev' = res
    /\ res' = convertToConvention(res, conv)
    /\ UNCHANGED <<fname, conv>>
    /\ UNCHANGED nonCodecVars

\* CodeValidator.convertToConvention(fname, conv)
CVConvert ==
    /\ op = "none"
    /\ op' = "cvConvert"
    /\ res' = CodeValidator_convertToConvention(fname, conv)
    /\ UNCHANGED <<fname, conv, prev>>
    /\ UNCHANGED nonCodecVars

\* CodeValidator.convertToConvention applied to its own result
CVReconvert ==
    /\ op = "cvConvert"
    /\ op' = "cvReconvert"
    /\ prev' = res
    /\ res' = CodeValidator_convertToConvention(res, conv)
    /\ UNCHANGED <<fname, conv>>
    /\ UNCHANGED nonCodecVars

CodecNext == NVConvert \/ NVReconvert \/ CVConvert \/ CVReconvert

\* ------------------------------------------------------------------------
\* CodeValidator.validateIdentifier as a state machine: one identifier and
\* one configuration, validated once
\* ------------------------------------------------------------------------
IdentifierChars == { "a", "b", "A", "1", "_", "$" }

IdentifierNames == StringsUpTo(IdentifierChars, MaxIdLen)

\* CodeIdentifier.type
IdentifierTypes ==
    { "variable", "function", "class", "constant", "interface", "type", "enum" }

ConfigKeys ==
    << "variables", "functions", "components", "constants",
       "classes", "interfaces", "types", "enums" >>

getDefaultCodeConfig ==
    [ variables |-> "camelCase", functions |-> "camelCase",
      components |-> "PascalCase", constants |-> "UPPER_SNAKE_CASE",
      classes |-> "PascalCase", interfaces |-> "PascalCase",
      types |-> "PascalCase", enums |-> "PascalCase" ]

\* the configuration giving the i-th key the (i+k)-th convention
RotatedConfig(k) ==
    [ key \in { ConfigKeys[i] : i \in 1..Len(ConfigKeys) } |->
        ConventionOrder[
            (((CHOOSE i \in 1..Len(ConfigKeys) : ConfigKeys[i] = key) + k)
                % Len(ConventionOrder)) + 1] ]

Configs ==
    { getDefaultCodeConfig } \cup { RotatedConfig(k) : k \in 1..Len(ConventionOrder) }

\* mutant: variables looked up under the functions key
getExpectedConvention_VariablesAsFunctions(id, cfg) ==
    IF id.isReactComponent THEN "PascalCase"
    ELSE CASE id.type = "variable" -> cfg.functions
           [] id.type = "function" -> cfg.functions
           [] id.type = "class" -> cfg.classes
           [] id.type = "constant" -> cfg.constants
           [] id.type = "interface" -> cfg.interfaces
           [] id.type = "type" -> cfg.types
           [] id.type = "enum" -> cfg.enums
           [] OTHER -> cfg.variables

getExpectedConvention(id, cfg) ==
    IF id.isReactComponent THEN "PascalCase"
    ELSE CASE id.type = "variable" -> cfg.variables
           [] id.type = "function" -> cfg.functions
           [] id.type = "class" -> cfg.classes
           [] id.type = "constant" -> cfg.constants
           [] id.type = "interface" -> cfg.interfaces
           [] id.type = "type" -> cfg.types
           [] id.type = "enum" -> cfg.enums
           [] OTHER -> cfg.variables

\* the value of an unset suggestedName
Undefined == << "<undefined>" >>

\* mutant: the suggestion is computed whether or not the name is valid
validateIdentifier_AlwaysSuggests(id, cfg) ==
    LET expectedConvention == getExpectedConvention(id, cfg)
        isValid == validateConvention(id.name, expectedConvention)
    IN  [ identifier |-> id,
          isValid |-> isValid,
          expectedConvention |-> expectedConvention,
          suggestedName |-> CodeValidator_convertToConvention(id.name, expectedConvention),
          violation |->
              IF isValid THEN <<>>
              ELSE IF id.isReactComponent
                   THEN << "React component", id.name, "PascalCase" >>
                   ELSE << id.type, id.name, expectedConvention >> ]

\* the violation text as its parts: the label, the name, the convention
validateIdentifier(id, cfg) ==
    LET expectedConvention == getExpectedConvention(id, cfg)
        isValid == validateConvention(id.name, expectedConvention)
    IN  [ identifier |-> id,
          isValid |-> isValid,
          expectedConvention |-> expectedConvention,
          suggestedName |->
              IF ~isValid
              THEN CodeValidator_convertToConvention(id.name, expectedConvention)
              ELSE Undefined,
          violation |->
              IF isValid THEN <<>>
              ELSE IF id.isReactComponent
                   THEN << "React component", id.name, "PascalCase" >>
                   ELSE << id.type, id.name, expectedConvention >> ]

NoOutcome == [ isValid |-> TRUE, pending |-> TRUE ]

\* the conventions suggestFixes goes through, line 182
FixConventions ==
    << "camelCase", "PascalCase", "snake_case", "kebab-case", "UPPER_SNAKE_CASE" >>

\* mutant: the expected convention is not left out
IsFixCandidate_ExpectedToo(convention, expectedConvention) == TRUE

\* convention !== expectedConvention
IsFixCandidate(convention, expectedConvention) == convention # expectedConvention

\* the loop of lines 184-191; a suggestion `${convention}: ${converted}` is
\* kept as the pair of its parts
RECURSIVE suggestFixesFrom(_, _, _)
suggestFixesFrom(id, expectedConvention, i) ==
    IF i > Len(FixConventions) THEN <<>>
    ELSE LET convention == FixConventions[i]
             converted == CodeValidator_convertToConvention(id.name, convention)
         IN  (IF IsFixCandidate(convention, expectedConvention) /\ converted # id.name
              THEN << << convention, converted >> >>
              ELSE <<>>)
             \o suggestFixesFrom(id, expectedConvention, i + 1)

suggestFixes(id, cfg) ==
    suggestFixesFrom(id, getExpectedConvention(id, cfg), 1)

NoFixes == << "pending" >>

ValidateIdentifier ==
    /\ outcome = NoOutcome
    /\ outcome' = validateIdentifier(identifier, config)
    /\ UNCHANGED <<identifier, config, fixes>>
    /\ UNCHANGED nonValidateVars

SuggestFixes ==
    /\ fixes = NoFixes
    /\ fixes' = suggestFixes(identifier, config)
    /\ UNCHANGED <<identifier, config, outcome>>
    /\ UNCHANGED nonValidateVars

ValidateNext == ValidateIdentifier \/ SuggestFixes

\* ------------------------------------------------------------------------
\* NamingValidator.detectConvention as a state machine: a list of names and
\* a reordering of it, each detected once
\* ------------------------------------------------------------------------
\* the loop of lines 72-80: one pass over the names, five counters
RECURSIVE CountScores(_, _)
CountScores(list, scores) ==
    IF list = <<>> THEN scores
    ELSE CountScores(Tail(list),
            [c \in NamingConvention |->
                IF CONVENTION_PATTERNS(c, getBaseName(list[1]))
                THEN scores[c] + 1 ELSE scores[c]])

Null == "null"

\* mutant: a tie goes to the last convention with the highest score
detectConvention_LastWins(list) ==
    LET scores == CountScores(list, [c \in NamingConvention |-> 0])
        maxScore == CHOOSE m \in { scores[c] : c \in NamingConvention } :
                        \A c \in NamingConvention : scores[c] <= m
    IN  IF maxScore = 0 THEN Null
        ELSE ConventionOrder[CHOOSE i \in 1..Len(ConventionOrder) :
                /\ scores[ConventionOrder[i]] = maxScore
                /\ \A j \in (i + 1)..Len(ConventionOrder) :
                      scores[ConventionOrder[j]] # maxScore]

\* mutant: the loop starts at the second name
detectConvention_SkipFirst(list) ==
    LET scores == CountScores(IF list = <<>> THEN list ELSE Tail(list),
                              [c \in NamingConvention |-> 0])
        maxScore == CHOOSE m \in { scores[c] : c \in NamingConvention } :
                        \A c \in NamingConvention : scores[c] <= m
    IN  IF maxScore = 0 THEN Null
        ELSE ConventionOrder[CHOOSE i \in 1..Len(ConventionOrder) :
                /\ scores[ConventionOrder[i]] = maxScore
                /\ \A j \in 1..(i - 1) : scores[ConventionOrder[j]] # maxScore]

\* Object.entries(scores).find(...) returns the first entry in key order
detectConvention(list) ==
    LET scores == CountScores(list, [c \in NamingConvention |-> 0])
        maxScore == CHOOSE m \in { scores[c] : c \in NamingConvention } :
                        \A c \in NamingConvention : scores[c] <= m
    IN  IF maxScore = 0 THEN Null
        ELSE ConventionOrder[CHOOSE i \in 1..Len(ConventionOrder) :
                /\ scores[ConventionOrder[i]] = maxScore
                /\ \A j \in 1..(i - 1) : scores[ConventionOrder[j]] # maxScore]

\* file names matching each convention alone, several at once, and none
SampleNames ==
    { << "a" >>, << "a", "B" >>, << "a", "_", "b" >>, << "a", "-", "b" >>,
      << "A", "b" >>, << "A", "_", "B" >>, << "A", "B", ".", "a" >>, << "a", " ", "b" >> }

RECURSIVE ListsUpTo(_, _)
ListsUpTo(S, n) ==
    IF n = 0 THEN { <<>> }
    ELSE LET shorter == ListsUpTo(S, n - 1)
         IN  shorter \cup { Append(l, x) : l \in shorter, x \in S }

Reorderings(list) ==
    LET idx == 1..Len(list)
    IN  { [i \in idx |-> list[f[i]]] :
            f \in { g \in [idx -> idx] : \A i, j \in idx : g[i] = g[j] => i = j } }

NotDetected == "pending"

DetectConvention ==
    /\ detected = NotDetected
    /\ detected' = detectConvention(names)
    /\ UNCHANGED <<names, permuted, detectedPermuted>>
    /\ UNCHANGED nonDetectVars

DetectConventionPermuted ==
    /\ detectedPermuted = NotDetected
    /\ detectedPermuted' = detectConvention(permuted)
    /\ UNCHANGED <<names, permuted, detected>>
    /\ UNCHANGED nonDetectVars

DetectNext == DetectConvention \/ DetectConventionPermuted

\* ------------------------------------------------------------------------
\* ASTAnalyzer (core/ast-analyzer.ts)
\* ------------------------------------------------------------------------
\* A node of the parser's tree: its type tag, id.name (empty when the node
\* has no id), init and declaration (a list of no or one node) and kids, the
\* nodes of its array-valued field (declarations of a VariableDeclaration,
\* the statements of a body), and loc, a list of no or one position
\* (loc.start); a node is built without a position and the parser adds it.
Node(type, name, init, declaration, kids) ==
    [ type |-> type, name |-> name, init |-> init,
      declaration |-> declaration, kids |-> kids, loc |-> <<>> ]

\* mutant: a missing position reads as line 1
StartLine_OrOne(node) ==
    IF node.loc = <<>> THEN 1 ELSE node.loc[1].line

\* node.loc?.start?.line || 0
StartLine(node) ==
    IF node.loc = <<>> \/ node.loc[1].line = 0 THEN 0 ELSE node.loc[1].line

\* node.loc?.start?.column || 0
StartColumn(node) ==
    IF node.loc = <<>> \/ node.loc[1].column = 0 THEN 0 ELSE node.loc[1].column

\* mutant: only the first character is tested
isConstant_FirstCharOnly(name) ==
    Len(name) > 0 /\ IsUpper(name[1])

\* /^[A-Z][A-Z0-9_]*$/.test(name)
isConstant(name) ==
    Len(name) > 0 /\ IsUpper(name[1]) /\ RestAll(name, IsUpperSnakeChar)

FunctionLikeTypes ==
    { "ArrowFunctionExpression", "FunctionExpression", "FunctionDeclaration" }

\* mutant: the test of the name's first character is missing
isReactComponent_AnyName(name, nodes) ==
    IF nodes = <<>> THEN FALSE
    ELSE nodes[1].type \in FunctionLikeTypes

\* nodes is the list of no or one node standing for a possibly absent node
isReactComponent(name, nodes) ==
    IF ~(Len(name) > 0 /\ IsUpper(name[1])) THEN FALSE
    ELSE IF nodes = <<>> THEN FALSE
    ELSE nodes[1].type \in FunctionLikeTypes

checkIfExported(node) == FALSE

\* the CodeIdentifier pushed for a declaration; an absent isReactComponent
\* is falsy and modelled as FALSE
CodeIdentifier(name, type, line, column, isExported, isReact) ==
    [ name |-> name, type |-> type, line |-> line, column |-> column,
      scope |-> "global",
      isExported |-> isExported, isReactComponent |-> isReact ]

\* the loop over node.declarations, lines 61-77 and 196-212
RECURSIVE DeclaratorIdentifiers(_, _)
DeclaratorIdentifiers(declarators, isExported) ==
    IF declarators = <<>> THEN <<>>
    ELSE LET declarator == declarators[1]
             name == declarator.name
             isConst == isConstant(name)
         IN  (IF name # <<>>
              THEN << CodeIdentifier(name,
                          IF isConst THEN "constant" ELSE "variable",
                          StartLine(declarator), StartColumn(declarator),
                          isExported,
                          IF ~isConst THEN isReactComponent(name, declarator.init)
                          ELSE FALSE) >>
              ELSE <<>>)
             \o DeclaratorIdentifiers(Tail(declarators), isExported)

\* the category of the four declaration kinds both walkers push alike
SimpleCategory(type) ==
    CASE type = "ClassDeclaration" -> "class"
      [] type = "TSInterfaceDeclaration" -> "interface"
      [] type = "TSTypeAliasDeclaration" -> "type"
      [] type = "TSEnumDeclaration" -> "enum"

extractExportedIdentifiers(node, isExported) ==
    IF node.type = "VariableDeclaration"
    THEN DeclaratorIdentifiers(node.kids, isExported)
    ELSE IF node.type = "FunctionDeclaration" /\ node.name # <<>>
    THEN << CodeIdentifier(node.name, "function",
                           StartLine(node), StartColumn(node), isExported,
                           isReactComponent(node.name, << node >>)) >>
    ELSE IF node.type \in { "ClassDeclaration", "TSInterfaceDeclaration",
                            "TSTypeAliasDeclaration" } /\ node.name # <<>>
    THEN << CodeIdentifier(node.name, SimpleCategory(node.type),
                           StartLine(node), StartColumn(node), isExported, FALSE) >>
    ELSE <<>>

\* the fields the `for (const key in node)` loop descends into, in key order
Children(node) == node.init \o node.declaration \o node.kids

RECURSIVE extractIdentifiersFromNode(_)
RECURSIVE ExtractFromEach(_)
extractIdentifiersFromNode(node) ==
    LET own ==
            (IF node.type = "VariableDeclaration"
             THEN DeclaratorIdentifiers(node.kids, checkIfExported(node))
             ELSE <<>>)
            \o
            (IF node.type = "FunctionDeclaration" /\ node.name # <<>>
             THEN << CodeIdentifier(node.name, "function",
                                    StartLine(node), StartColumn(node),
                                    checkIfExported(node),
                                    isReactComponent(node.name, << node >>)) >>
             ELSE <<>>)
            \o
            (IF node.type \in { "ClassDeclaration", "TSInterfaceDeclaration",
                                "TSTypeAliasDeclaration", "TSEnumDeclaration" }
                /\ node.name # <<>>
             THEN << CodeIdentifier(node.name, SimpleCategory(node.type),
                                    StartLine(node), StartColumn(node),
                                    checkIfExported(node), FALSE) >>
             ELSE <<>>)
    IN  IF node.type \in { "ExportNamedDeclaration", "ExportDefaultDeclaration" }
           /\ node.declaration # <<>>
        THEN own \o extractExportedIdentifiers(node.declaration[1], TRUE)
        ELSE own \o ExtractFromEach(Children(node))

ExtractFromEach(nodes) ==
    IF nodes = <<>> THEN <<>>
    ELSE extractIdentifiersFromNode(nodes[1]) \o ExtractFromEach(Tail(nodes))

\* ------------------------------------------------------------------------
\* The trees the parser hands to the walker
\* ------------------------------------------------------------------------
Leaf(type, name) == Node(type, name, <<>>, <<>>, <<>>)

\* the initializer of a declarator: absent, an arrow function, a function
\* expression, a literal
Inits ==
    { <<>>, << Leaf("ArrowFunctionExpression", <<>>) >>,
      << Leaf("FunctionExpression", <<>>) >>, << Leaf("NumericLiteral", <<>>) >> }

VariableNames == { << "a" >>, << "A", "b" >>, << "A" >>, << "A", "_", "1" >> }
FunctionNames == { << "a" >>, << "A", "b" >> }
TypeNames == { << "A", "b" >>, << "A", "_", "1" >> }

Declarator(name, init) == Node("VariableDeclarator", name, init, <<>>, <<>>)

VariableDeclaration(declarators) ==
    Node("VariableDeclaration", <<>>, <<>>, <<>>, declarators)

\* one declarator each, and three lists of two; a declarator whose id is a
\* destructuring pattern has no id.name
VariableDeclarations ==
    { VariableDeclaration(<< Declarator(n, i) >>) : n \in VariableNames, i \in Inits }
    \cup
    { VariableDeclaration(<< Declarator(<< "A", "_", "1" >>, << Leaf("NumericLiteral", <<>>) >>),
                             Declarator(<< "A", "b" >>, << Leaf("ArrowFunctionExpression", <<>>) >>) >>),
      VariableDeclaration(<< Declarator(<< "a" >>, <<>>),
                             Declarator(<< "A" >>, << Leaf("NumericLiteral", <<>>) >>) >>),
      VariableDeclaration(<< Declarator(<<>>, << Leaf("NumericLiteral", <<>>) >>),
                             Declarator(<< "a" >>, << Leaf("NumericLiteral", <<>>) >>) >>) }

SimpleDeclarationTypes ==
    { "ClassDeclaration", "TSInterfaceDeclaration",
      "TSTypeAliasDeclaration", "TSEnumDeclaration" }

SimpleDeclarations == { Leaf(ty, n) : ty \in SimpleDeclarationTypes, n \in TypeNames }

FunctionDeclaration(name, body) == Node("FunctionDeclaration", name, <<>>, <<>>, body)

ExportNamedDeclaration(declaration) ==
    Node("ExportNamedDeclaration", <<>>, <<>>, declaration, <<>>)

ExportDefaultDeclaration(declaration) ==
    Node("ExportDefaultDeclaration", <<>>, <<>>, << declaration >>, <<>>)

BlockStatement(body) == Node("BlockStatement", <<>>, <<>>, <<>>, body)

\* the statements of nesting depth at most d: declarations, exported
\* declarations, `export { x }`, and blocks and function bodies holding one
\* statement of depth d - 1
RECURSIVE Statements(_)
Statements(d) ==
    LET inner == IF d = 0 THEN {} ELSE Statements(d - 1)
        bodies == { <<>> } \cup { << s >> : s \in inner }
        functions == { FunctionDeclaration(n, b) : n \in FunctionNames, b \in bodies }
        declarations == VariableDeclarations \cup SimpleDeclarations \cup functions
        defaults ==
            functions
            \cup { FunctionDeclaration(<<>>, b) : b \in bodies }
            \cup { Leaf(ty, n) : ty \in { "ClassDeclaration", "TSInterfaceDeclaration" },
                                 n \in TypeNames }
            \cup { Leaf("ClassDeclaration", <<>>) }
    IN  declarations
        \cup { ExportNamedDeclaration(<< x >>) : x \in declarations }
        \cup { ExportNamedDeclaration(<<>>) }
        \cup { ExportDefaultDeclaration(x) : x \in defaults }
        \cup { BlockStatement(<< s >>) : s \in inner }

Program(body) == Node("Program", <<>>, <<>>, <<>>, body)

\* one declaration of each of the seven categories
OneOfEach ==
    << VariableDeclaration(<< Declarator(<< "a" >>, << Leaf("NumericLiteral", <<>>) >>) >>),
       VariableDeclaration(<< Declarator(<< "A", "_", "1" >>, << Leaf("NumericLiteral", <<>>) >>) >>),
       FunctionDeclaration(<< "a" >>, <<>>),
       Leaf("ClassDeclaration", << "A", "b" >>),
       Leaf("TSInterfaceDeclaration", << "A", "b" >>),
       Leaf("TSTypeAliasDeclaration", << "A", "b" >>),
       Leaf("TSEnumDeclaration", << "A", "b" >>) >>

Wrapped(declaration, how) ==
    CASE how = "plain" -> declaration
      [] how = "export" -> ExportNamedDeclaration(<< declaration >>)
      [] how = "block" -> BlockStatement(<< declaration >>)

\* the seven declarations in one program, each plain, exported or in a block
CompleteTrees ==
    { Program([i \in 1..Len(OneOfEach) |-> Wrapped(OneOfEach[i], how[i])]) :
        how \in [1..Len(OneOfEach) -> { "plain", "export", "block" }] }

\* the trees before the parser has set the positions
Unpositioned ==
    { Program(<< s >>) : s \in Statements(MaxDepth) }
    \cup { Program(<< s1, s2 >>) : s1, s2 \in Statements(0) }
    \cup CompleteTrees

RECURSIVE Size(_)
RECURSIVE SizeOfEach(_)
Size(node) == 1 + SizeOfEach(node.init \o node.declaration \o node.kids)

SizeOfEach(nodes) ==
    IF nodes = <<>> THEN 0 ELSE Size(nodes[1]) + SizeOfEach(Tail(nodes))

\* The positions of a tree: the n-th node in source order starts on line n,
\* in column 0 at the top level and one column further per level of
\* nesting; the nodes whose number is in `missing` carry no position.
RECURSIVE Locate(_, _, _, _)
RECURSIVE LocateEach(_, _, _, _)
Locate(node, n, depth, missing) ==
    LET first == n + 1
        second == first + SizeOfEach(node.init)
        third == second + SizeOfEach(node.declaration)
    IN  [ type |-> node.type,
          name |-> node.name,
          init |-> LocateEach(node.init, first, depth + 1, missing),
          declaration |-> LocateEach(node.declaration, second, depth + 1, missing),
          kids |-> LocateEach(node.kids, third, depth + 1, missing),
          loc |-> IF n \in missing THEN <<>>
                  ELSE << [ line |-> n,
                            column |-> IF depth = 0 THEN 0 ELSE depth - 1 ] >> ]

LocateEach(nodes, n, depth, missing) ==
    IF nodes = <<>> THEN <<>>
    ELSE << Locate(nodes[1], n, depth, missing) >>
         \o LocateEach(Tail(nodes), n + Size(nodes[1]), depth, missing)

Parsed(program) == Locate(program, 1, 0, {})

\* a function, one declaration of a kind (plain, exported or in a block)
\* and a class, with one node of the tree left without a position
PositionSamples ==
    { Program(<< FunctionDeclaration(<< "a" >>, <<>>),
                 Wrapped(d, how),
                 Leaf("ClassDeclaration", << "A", "b" >>) >>) :
        d \in { OneOfEach[i] : i \in 1..Len(OneOfEach) }
               \cup { VariableDeclaration(<< Declarator(<< "a" >>, <<>>),
                                              Declarator(<< "A" >>, <<>>) >>) },
        how \in { "plain", "export", "block" } }

WithoutOnePosition ==
    UNION { { Locate(t, 1, 0, { k }) : k \in 2..Size(t) } : t \in PositionSamples }

Trees ==
    { Parsed(t) : t \in Unpositioned } \cup WithoutOnePosition

\* analyzeFile, lines 298-301, on a file that parsed
AnalyzeFile ==
    /\ ~analyzed
    /\ analyzed' = TRUE
    /\ identifiers' = extractIdentifiersFromNode(tree)
    /\ UNCHANGED tree
    /\ UNCHANGED nonAstVars

AstNext == AnalyzeFile

\* ------------------------------------------------------------------------
\* CodeValidator.validateIdentifiers
\* ------------------------------------------------------------------------
\* violationsByType[key] = (violationsByType[key] || 0) + 1
Increment(counts, key) ==
    IF key \in DOMAIN counts
    THEN [ counts EXCEPT ![key] = @ + 1 ]
    ELSE [ k \in DOMAIN counts \cup { key } |->
             IF k = key THEN 1 ELSE counts[k] ]

\* an object without keys
EmptyObject == [ k \in {} |-> 0 ]

\* mutant: the histogram keyed by the category alone
ViolationKey_TypeOnly(id) == id.type

\* the key of a violation in violationsByType
ViolationKey(id) ==
    IF id.isReactComponent THEN "React Components" ELSE id.type

RECURSIVE validateIdentifiersFrom(_, _, _, _, _)
validateIdentifiersFrom(ids, cfg, i, violations, violationsByType) ==
    IF i > Len(ids)
    THEN [ totalChecked |-> Len(ids),
           totalViolations |-> Len(violations),
           violationsByType |-> violationsByType,
           violations |-> violations ]
    ELSE LET result == validateIdentifier(ids[i], cfg)
         IN  IF ~result.isValid
             THEN validateIdentifiersFrom(ids, cfg, i + 1,
                      Append(violations, result),
                      Increment(violationsByType, ViolationKey(ids[i])))
             ELSE validateIdentifiersFrom(ids, cfg, i + 1,
                      violations, violationsByType)

validateIdentifiers(ids, cfg) ==
    validateIdentifiersFrom(ids, cfg, 1, <<>>, EmptyObject)

\* the identifiers of a batch: the analyzer sets isReactComponent on
\* variables and functions only, and only under a name that starts uppercase
BatchNames ==
    { << "a" >>, << "A", "b" >>, << "a", "_", "b" >>, << "A", "_", "b" >> }
BatchTypes == { "variable", "function", "class", "enum" }
BatchIdentifiers ==
    { id \in [ name : BatchNames, type : BatchTypes, isReactComponent : BOOLEAN ] :
        id.isReactComponent =>
            /\ id.type \in { "variable", "function" }
            /\ IsUpper(id.name[1]) }

NoSummary == [ totalChecked |-> 0, pending |-> TRUE ]

ValidateIdentifiers ==
    /\ summary = NoSummary
    /\ summary' = validateIdentifiers(batch, config)
    /\ UNCHANGED <<batch, config>>
    /\ UNCHANGED nonBatchVars

BatchNext == ValidateIdentifiers

\* ------------------------------------------------------------------------
\* ASTAnalyzer.analyzeProject
\* ------------------------------------------------------------------------
detectNamingConvention(name) ==
    IF Len(name) > 0 /\ IsUpper(name[1]) /\ RestAll(name, IsUpperSnakeChar)
    THEN "CONSTANT_CASE"
    ELSE IF Len(name) > 0 /\ IsUpper(name[1]) /\ RestAll(name, IsAlnum)
    THEN "PascalCase"
    ELSE IF Len(name) > 0 /\ IsLower(name[1]) /\ RestAll(name, IsAlnum)
    THEN "camelCase"
    ELSE IF Len(name) > 0 /\ IsLower(name[1]) /\ RestAll(name, IsSnakeChar)
    THEN "snake_case"
    ELSE IF Len(name) > 0 /\ IsLower(name[1]) /\ RestAll(name, IsKebabChar)
    THEN "kebab-case"
    ELSE "mixed"

\* the files under rootPath, in the order glob lists them
RelPaths == << "a.ts", "b.ts", "c.js" >>
RelPathSet == { RelPaths[i] : i \in 1..Len(RelPaths) }
rootPath == "root"

\* path.join(rootPath, f)
PathJoin(root, f) == << root, f >>

\* a glob pattern is modelled by the set of files it matches once the
\* ignore list is applied; glob.sync lists them in directory order
RECURSIVE GlobFrom(_, _)
GlobFrom(pattern, i) ==
    IF i > Len(RelPaths) THEN <<>>
    ELSE (IF RelPaths[i] \in pattern THEN << RelPaths[i] >> ELSE <<>>)
         \o GlobFrom(pattern, i + 1)

glob_sync(pattern) == GlobFrom(pattern, 1)

\* files.push(...matches.map(f => join(rootPath, f))), for each pattern
RECURSIVE FindFiles(_)
FindFiles(pats) ==
    IF pats = <<>> THEN <<>>
    ELSE LET matches == glob_sync(pats[1])
         IN  [ i \in 1..Len(matches) |-> PathJoin(rootPath, matches[i]) ]
             \o FindFiles(Tail(pats))

\* the identifiers carry the path of their file
WithFilePath(ids, filePath) ==
    [ i \in 1..Len(ids) |-> [ filePath |-> filePath ] @@ ids[i] ]

\* analyzeFile: readFileSync, babelParse or the walk may throw; the catch
\* returns [] and drops what the walk had pushed so far
analyzeFile(filePath, files) ==
    LET file == files[filePath[2]]
    IN  IF file.status = "parsed"
        THEN WithFilePath(extractIdentifiersFromNode(file.tree), filePath)
        ELSE <<>>

IdentifierCategory(id) ==
    IF id.type = "constant" THEN "constants"
    ELSE IF id.type = "class" THEN "classes"
    ELSE IF id.type = "function" THEN "functions"
    ELSE "variables"

\* if (!conventions[category][convention]) ... = 0; ...++
CountConvention(conventions, category, convention) ==
    LET counts == conventions[category]
    IN  [ conventions EXCEPT ![category] =
            [ k \in DOMAIN counts \cup { convention } |->
                IF k \in DOMAIN counts
                THEN IF k = convention THEN counts[k] + 1 ELSE counts[k]
                ELSE 1 ] ]

RECURSIVE CountConventions(_, _)
CountConventions(conventions, ids) ==
    IF ids = <<>> THEN conventions
    ELSE CountConventions(
             CountConvention(conventions, IdentifierCategory(ids[1]),
                             detectNamingConvention(ids[1].name)),
             Tail(ids))

\* mutant: the loop ends at the first file that yields nothing
RECURSIVE AnalyzeEach_StopsAtEmpty(_, _, _, _)
AnalyzeEach_StopsAtEmpty(paths, files, allIdentifiers, conventions) ==
    IF paths = <<>> \/ analyzeFile(paths[1], files) = <<>>
    THEN [ identifiers |-> allIdentifiers, conventions |-> conventions ]
    ELSE LET ids == analyzeFile(paths[1], files)
         IN  AnalyzeEach_StopsAtEmpty(Tail(paths), files, allIdentifiers \o ids,
                                      CountConventions(conventions, ids))

\* the loop over files, lines 331-347
RECURSIVE AnalyzeEach(_, _, _, _)
AnalyzeEach(paths, files, allIdentifiers, conventions) ==
    IF paths = <<>>
    THEN [ identifiers |-> allIdentifiers, conventions |-> conventions ]
    ELSE LET ids == analyzeFile(paths[1], files)
         IN  AnalyzeEach(Tail(paths), files, allIdentifiers \o ids,
                         CountConventions(conventions, ids))

\* Object.values(counts).reduce((a, b) => a + b, 0)
RECURSIVE SumOfValues(_, _)
SumOfValues(counts, keys) ==
    IF keys = {} THEN 0
    ELSE LET k == CHOOSE x \in keys : TRUE
         IN  counts[k] + SumOfValues(counts, keys \ { k })

\* mutant: the smallest count is taken for the largest
MaxOfValues_Smallest(counts) ==
    CHOOSE m \in { counts[k] : k \in DOMAIN counts } :
        \A k \in DOMAIN counts : m <= counts[k]

\* Math.max(...Object.values(counts)), for an object with a key
MaxOfValues(counts) ==
    CHOOSE m \in { counts[k] : k \in DOMAIN counts } :
        \A k \in DOMAIN counts : counts[k] <= m

\* the score is kept as a fraction in lowest terms
RECURSIVE GCD(_, _)
GCD(a, b) == IF b = 0 THEN a ELSE GCD(b, a % b)

Fraction(n, d) == LET g == GCD(n, d) IN << n \div g, d \div g >>

AddFraction(x, y) == Fraction(x[1] * y[2] + y[1] * x[2], x[2] * y[2])

CategoryOrder == << "variables", "functions", "classes", "constants" >>

\* the loop over Object.entries(totalByCategory), lines 360-367
RECURSIVE ScoreFrom(_, _, _, _)
ScoreFrom(conventions, i, consistencyScore, totalCategories) ==
    IF i > Len(CategoryOrder)
    THEN [ consistencyScore |-> consistencyScore,
           totalCategories |-> totalCategories ]
    ELSE LET counts == conventions[CategoryOrder[i]]
             total == SumOfValues(counts, DOMAIN counts)
         IN  IF total > 0
             THEN ScoreFrom(conventions, i + 1,
                      AddFraction(consistencyScore,
                                  Fraction(MaxOfValues(counts), total)),
                      totalCategories + 1)
             ELSE ScoreFrom(conventions, i + 1, consistencyScore, totalCategories)

analyzeProject(pats, files) ==
    LET noCounts == [ k \in {} |-> 0 ]
        analysis == AnalyzeEach(FindFiles(pats), files, <<>>,
                        [ variables |-> noCounts, functions |-> noCounts,
                          classes |-> noCounts, constants |-> noCounts ])
        score == ScoreFrom(analysis.conventions, 1, << 0, 1 >>, 0)
    IN  [ identifiers |-> analysis.identifiers,
          conventions |-> analysis.conventions,
          totalIdentifiers |-> Len(analysis.identifiers),
          consistencyScore |->
              IF score.totalCategories > 0
              THEN Fraction(score.consistencyScore[1],
                            score.consistencyScore[2] * score.totalCategories)
              ELSE << 0, 1 >> ]

\* what a file holds: it cannot be read, it does not parse, its walk throws
\* (the tree is too deep for the stack), or it parses and is walked
ProjectTrees ==
    { Parsed(Program(<< VariableDeclaration(<< Declarator(<< "a" >>, <<>>) >>),
                        FunctionDeclaration(<< "A", "b" >>, <<>>) >>)),
      Parsed(Program(<< VariableDeclaration(<< Declarator(<< "A", "_", "1" >>, <<>>),
                                               Declarator(<< "a", "_", "b" >>, <<>>) >>),
                        ExportNamedDeclaration(<< Leaf("ClassDeclaration", << "A", "b" >>) >>),
                        Leaf("TSInterfaceDeclaration", << "A", "b" >>) >>)) }

FileContents ==
    { [ status |-> s, tree |-> Program(<<>>) ] : s \in { "unreadable", "unparseable" } }
    \cup { [ status |-> "throws", tree |-> t ] : t \in { CHOOSE x \in ProjectTrees : TRUE } }
    \cup { [ status |-> "parsed", tree |-> t ] : t \in ProjectTrees }

NoProject == [ totalIdentifiers |-> 0, pending |-> TRUE ]

AnalyzeProject ==
    /\ project = NoProject
    /\ project' = analyzeProject(patterns, disk)
    /\ UNCHANGED <<patterns, disk>>
    /\ UNCHANGED nonProjectVars

ProjectNext == AnalyzeProject

\* ------------------------------------------------------------------------
\* NamingValidator.validateName and SuggestionEngine.suggestName
\* ------------------------------------------------------------------------
\* exceptions.includes(text)
Includes(list, text) == \E i \in 1..Len(list) : list[i] = text

\* the message as its parts: the kind of sentence, the file, what it names
validateName(name, convention, exceptionList) ==
    LET baseName == getBaseName(name)
    IN  IF Includes(exceptionList, toLowerCase(baseName))
        THEN [ isValid |-> TRUE,
               expectedName |-> Undefined,
               convention |-> convention,
               message |-> << "is in the exceptions list", name >> ]
        ELSE IF CONVENTION_PATTERNS(convention, baseName)
        THEN [ isValid |-> TRUE,
               expectedName |-> Undefined,
               convention |-> convention,
               message |-> << "follows", name, convention >> ]
        ELSE LET expectedName == convertToConvention(baseName, convention)
             IN  [ isValid |-> FALSE,
                   expectedName |-> expectedName \o getExtension(name),
                   convention |-> convention,
                   message |-> << "should be", name,
                                  expectedName \o getExtension(name), convention >> ]

\* path.extname on a name without directories: empty when the name has no
\* dot, when its last dot is its first character, and for ".."
extname(filename) ==
    IF LastDotIndex(filename) <= 1 \/ filename = << ".", "." >>
    THEN <<>>
    ELSE SubSeq(filename, LastDotIndex(filename), Len(filename))

SuggestionEngine_getBaseName(filename) ==
    IF LastDotIndex(filename) > 1
    THEN SubSeq(filename, 1, LastDotIndex(filename) - 1)
    ELSE filename

SuggestionEngine_extractWords(name) ==
    SelectSeq(SplitOnSpace(SeparatorsToSpace(SplitCamel(name)), <<>>),
              LAMBDA word : Len(word) > 0)

\* mutant: the two bonuses swapped
calculateConfidence_BonusesSwapped(original, suggested, convention) ==
    IF original = suggested THEN 10
    ELSE LET words1 == SuggestionEngine_extractWords(SuggestionEngine_getBaseName(original))
             words2 == SuggestionEngine_extractWords(SuggestionEngine_getBaseName(suggested))
         IN  5 + (IF toLowerCase(join(words1, <<>>)) = toLowerCase(join(words2, <<>>))
                  THEN 2 ELSE 0)
               + (IF CONVENTION_PATTERNS(convention,
                                         SuggestionEngine_getBaseName(suggested))
                  THEN 3 ELSE 0)

\* confidence in tenths: 0.5, 0.3 and 0.2 add up without rounding
calculateConfidence(original, suggested, convention) ==
    IF original = suggested THEN 10
    ELSE LET originalBase == SuggestionEngine_getBaseName(original)
             suggestedBase == SuggestionEngine_getBaseName(suggested)
             words1 == SuggestionEngine_extractWords(originalBase)
             words2 == SuggestionEngine_extractWords(suggestedBase)
             sameWords == IF toLowerCase(join(words1, <<>>))
                               = toLowerCase(join(words2, <<>>))
                          THEN 3 ELSE 0
             matches == IF CONVENTION_PATTERNS(convention, suggestedBase)
                        THEN 2 ELSE 0
             confidence == 5 + sameWords + matches
         IN  IF confidence < 10 THEN confidence ELSE 10

suggestName(filename, convention, exceptionList) ==
    LET baseName == SuggestionEngine_getBaseName(filename)
        extension == extname(filename)
    IN  IF Includes(exceptionList, toLowerCase(baseName))
        THEN [ original |-> filename,
               suggested |-> filename,
               convention |-> convention,
               confidence |-> 10 ]
        ELSE LET suggestedBaseName == convertToConvention(baseName, convention)
                 suggestedFilename == suggestedBaseName \o extension
             IN  [ original |-> filename,
                   suggested |-> suggestedFilename,
                   convention |-> convention,
                   confidence |-> calculateConfidence(filename, suggestedFilename,
                                                      convention) ]

\* the file names and the exceptions lists of a configuration
CheckedFileChars == { "a", "b", "A", "_", "." }
\* names with two dots, as in my.component.ts
DottedFileNames ==
    { << "a", ".", "b", ".", "a" >>,
      << "a", "_", "b", ".", "A", ".", "b" >>,
      << "A", "b", ".", "a", ".", "b" >> }

CheckedFileNames ==
    (StringsUpTo(CheckedFileChars, MaxLen) \ { <<>> }) \cup DottedFileNames

ExceptionLists ==
    { <<>>,
      << << "a" >> >>,
      << << "A" >> >>,
      << << "a", "b" >>, << "a", "_", "b" >> >>,
      << << "A", "b" >>, << "a" >> >> }

\* the conventions suggestMultipleNames goes through, line 40
RankedConventions ==
    << "camelCase", "snake_case", "kebab-case", "PascalCase", "UPPER_SNAKE_CASE" >>

\* mutant: the bonus of the primary convention without the cap
Boosted_NoCap(confidence) == confidence + 2

\* Math.min(suggestion.confidence + 0.2, 1.0), in tenths; 0.7 + 0.2 is
\* 0.8999999999999999 in floating point, which orders as 0.9 does
Boosted(confidence) == IF confidence + 2 < 10 THEN confidence + 2 ELSE 10

\* .sort((a, b) => b.confidence - a.confidence): the sort is stable, so an
\* element goes behind those of the same confidence that precede it
RECURSIVE InsertByConfidence(_, _)
InsertByConfidence(sorted, x) ==
    IF sorted = <<>> THEN << x >>
    ELSE IF sorted[1].confidence >= x.confidence
         THEN << sorted[1] >> \o InsertByConfidence(Tail(sorted), x)
         ELSE << x >> \o sorted

RECURSIVE SortByConfidence(_)
SortByConfidence(list) ==
    IF list = <<>> THEN <<>>
    ELSE InsertByConfidence(SortByConfidence(SubSeq(list, 1, Len(list) - 1)),
                            list[Len(list)])

suggestMultipleNames(filename, primaryConvention, exceptionList) ==
    SortByConfidence(
        [ i \in 1..Len(RankedConventions) |->
            LET convention == RankedConventions[i]
                suggested == suggestName(filename, convention, exceptionList)
            IN  IF convention = primaryConvention
                THEN [ suggested EXCEPT !.confidence = Boosted(@) ]
                ELSE suggested ])

NoRanking == << "pending" >>

NoValidation == [ isValid |-> TRUE, pending |-> TRUE ]
NoSuggestion == [ confidence |-> 0, pending |-> TRUE ]

ValidateName ==
    /\ validation = NoValidation
    /\ validation' = validateName(fname, conv, exceptions)
    /\ UNCHANGED <<fname, conv, exceptions, suggestion, ranking>>
    /\ UNCHANGED nonFileVars

SuggestName ==
    /\ suggestion = NoSuggestion
    /\ suggestion' = suggestName(fname, conv, exceptions)
    /\ UNCHANGED <<fname, conv, exceptions, validation, ranking>>
    /\ UNCHANGED nonFileVars

\* conv is the primary convention
SuggestMultipleNames ==
    /\ ranking = NoRanking
    /\ ranking' = suggestMultipleNames(fname, conv, exceptions)
    /\ UNCHANGED <<fname, conv, exceptions, validation, suggestion>>
    /\ UNCHANGED nonFileVars

FileNext == ValidateName \/ SuggestName \/ SuggestMultipleNames

\* ------------------------------------------------------------------------
\* The recursion of extractIdentifiersFromNode over an object graph
\* ------------------------------------------------------------------------
\* The objects of a parsed file: object 1 is the root, every other object n
\* is an element of the body array of parentOf[n], and the fields named in
\* links hold, in every object but the root, a reference to the parent.
NodeKinds == { "FunctionDeclaration", "Unknown" }
LinkFields == { {}, { "parent" }, { "_parent" }, { "loc", "range" },
                { "parent", "_parent", "loc", "range" } }

ParentMaps(n) == { p \in [2..n -> 1..n] : \A i \in 2..n : p[i] < i }

Heaps ==
    UNION { { [ size |-> n, parentOf |-> p, kinds |-> k, links |-> l ] :
                p \in ParentMaps(n), k \in [1..n -> NodeKinds], l \in LinkFields } :
            n \in 1..MaxNodes }

\* the keys of an object, in the order `for (const key in node)` lists them
KeyOrder == << "type", "loc", "range", "parent", "_parent", "body" >>

RECURSIVE BodyFrom(_, _, _)
BodyFrom(h, n, i) ==
    IF i > h.size THEN <<>>
    ELSE (IF h.parentOf[i] = n THEN << i >> ELSE <<>>) \o BodyFrom(h, n, i + 1)

\* the objects a field holds: node[key], an object or the objects of an array
FieldObjects(h, n, key) ==
    IF key = "body" THEN BodyFrom(h, n, 2)
    ELSE IF key \in h.links /\ n > 1 THEN << h.parentOf[n] >>
    ELSE <<>>

\* mutant: the parent field is descended into
IsSkippedKey_NotParent(key) == key \in { "loc", "range", "_parent" }

\* key !== 'parent' && key !== 'loc' && key !== 'range' && key !== '_parent'
IsSkippedKey(key) == key \in { "parent", "loc", "range", "_parent" }

\* the objects the loop of lines 170-183 recurses into, in order
RECURSIVE RecursedFrom(_, _, _)
RecursedFrom(h, n, k) ==
    IF k > Len(KeyOrder) THEN <<>>
    ELSE (IF IsSkippedKey(KeyOrder[k]) THEN <<>>
          ELSE FieldObjects(h, n, KeyOrder[k]))
         \o RecursedFrom(h, n, k + 1)

Recursed(h, n) == RecursedFrom(h, n, 1)

\* the call stack holds more frames than any tree of the model is deep; a
\* recursion that outgrows it ends in a RangeError
StackLimit == MaxNodes + 2

Frame(n) == [ node |-> n, next |-> 1 ]

\* identifiers.push for a declaration, lines 81-93
Pushed(h, n) == IF h.kinds[n] = "FunctionDeclaration" THEN << n >> ELSE <<>>

\* extractIdentifiersFromNode(ast, identifiers, filePath), line 299
EnterRoot ==
    /\ status = "ready"
    /\ status' = "walking"
    /\ frames' = << Frame(1) >>
    /\ visited' = << 1 >>
    /\ found' = Pushed(heap, 1)
    /\ UNCHANGED heap
    /\ UNCHANGED nonWalkVars

\* the recursive call on the next child of the innermost call
Descend ==
    /\ status = "walking"
    /\ frames # <<>>
    /\ LET top == frames[Len(frames)]
           children == Recursed(heap, top.node)
       IN  /\ top.next <= Len(children)
           /\ IF Len(frames) < StackLimit
              THEN /\ frames' = Append([ frames EXCEPT ![Len(frames)].next = @ + 1 ],
                                       Frame(children[top.next]))
                   /\ visited' = Append(visited, children[top.next])
                   /\ found' = found \o Pushed(heap, children[top.next])
                   /\ status' = status
              ELSE /\ frames' = <<>>
                   /\ status' = "RangeError"
                   /\ UNCHANGED <<visited, found>>
    /\ UNCHANGED heap
    /\ UNCHANGED nonWalkVars

\* the innermost call has gone through its keys and returns
Return ==
    /\ status = "walking"
    /\ frames # <<>>
    /\ LET top == frames[Len(frames)]
       IN  top.next > Len(Recursed(heap, top.node))
    /\ frames' = SubSeq(frames, 1, Len(frames) - 1)
    /\ status' = IF Len(frames) = 1 THEN "returned" ELSE status
    /\ UNCHANGED <<heap, visited, found>>
    /\ UNCHANGED nonWalkVars

WalkNext == EnterRoot \/ Descend \/ Return

\* ------------------------------------------------------------------------
\* FileWatcher (core/file-watcher.ts): the calls on one FileWatcher and
\* the callbacks of the chokidar watchers it opens
\* ------------------------------------------------------------------------
MaxWatchers == 3
MaxEmitted == 3
MaxConsole == 2

\* this.watcher === null
NoWatcher == 0

\* the pattern lists the watcher is given
PatternLists == { << "**/*" >>, << "**/*.ts" >>, << "src/**", "**/*.js" >> }

\* the object as the methods see it: its fields, every watcher
\* chokidar.watch has returned, and what was emitted and printed
FileWatcherObject(w, p, h, e, c) ==
    [ watcher |-> w, filePatterns |-> p, handles |-> h, emitted |-> e, console |-> c ]

\* mutant: start opens a watcher without looking at this.watcher
start_NoGuard(this) ==
    [ this EXCEPT
        !.handles = Append(@, [ patterns |-> this.filePatterns,
                                closed |-> FALSE, ready |-> FALSE ]),
        !.watcher = Len(this.handles) + 1 ]

\* lines 17-48: the handlers registered on the new watcher are the
\* actions Ready, WatcherError and FileEvent
start(this) ==
    IF this.watcher # NoWatcher
    THEN [ this EXCEPT !.console = Append(@, "File watcher is already running") ]
    ELSE [ this EXCEPT
             !.handles = Append(@, [ patterns |-> this.filePatterns,
                                     closed |-> FALSE, ready |-> FALSE ]),
             !.watcher = Len(this.handles) + 1 ]

\* lines 50-57
stop(this) ==
    IF this.watcher # NoWatcher
    THEN [ this EXCEPT
             !.handles[this.watcher].closed = TRUE,
             !.watcher = NoWatcher,
             !.console = Append(@, "File watcher stopped"),
             !.emitted = Append(@, "stopped") ]
    ELSE this

\* lines 59-61
isWatching(this) == this.watcher # NoWatcher

\* lines 96-102
setFilePatterns(this, newPatterns) ==
    LET set == [ this EXCEPT !.filePatterns = newPatterns ]
    IN  IF set.watcher # NoWatcher THEN start(stop(set)) ELSE set

\* the events chokidar reports and what handleFileEvent emits for each
FileEvents == { "add", "addDir", "change", "unlink", "unlinkDir" }

EmittedFor(event) ==
    CASE event = "add" -> "fileAdded"
      [] event = "addDir" -> "directoryAdded"
      [] event = "change" -> "fileChanged"
      [] event = "unlink" -> "fileRemoved"
      [] event = "unlinkDir" -> "directoryRemoved"

\* lines 63-94
handleFileEvent(this, event) ==
    [ this EXCEPT !.emitted = @ \o << "fileEvent", EmittedFor(event) >> ]

This == FileWatcherObject(watcher, filePatterns, handles, emitted, console)

\* the number of watchers opened and the lengths of the logs are bounded
Fits(this) ==
    /\ Len(this.handles) <= MaxWatchers
    /\ Len(this.emitted) <= MaxEmitted
    /\ Len(this.console) <= MaxConsole

Start ==
    LET next == start(This)
    IN  /\ Fits(next)
        /\ watcher' = next.watcher
        /\ filePatterns' = next.filePatterns
        /\ handles' = next.handles
        /\ emitted' = next.emitted
        /\ console' = next.console
        /\ UNCHANGED nonWatchVars

Stop ==
    LET next == stop(This)
    IN  /\ Fits(next)
        /\ watcher' = next.watcher
        /\ filePatterns' = next.filePatterns
        /\ handles' = next.handles
        /\ emitted' = next.emitted
        /\ console' = next.console
        /\ UNCHANGED nonWatchVars

SetFilePatterns ==
    \E p \in PatternLists :
        LET next == setFilePatterns(This, p)
        IN  /\ Fits(next)
            /\ watcher' = next.watcher
            /\ filePatterns' = next.filePatterns
            /\ handles' = next.handles
            /\ emitted' = next.emitted
            /\ console' = next.console
            /\ UNCHANGED nonWatchVars

\* a watcher that is open reports that its first scan is done
Ready ==
    \E h \in 1..Len(handles) :
        /\ ~handles[h].closed
        /\ ~handles[h].ready
        /\ LET next == [ This EXCEPT
                          !.handles[h].ready = TRUE,
                          !.console = Append(@, "File watcher is ready and monitoring for changes..."),
                          !.emitted = Append(@, "ready") ]
           IN  /\ Fits(next)
               /\ watcher' = next.watcher
               /\ filePatterns' = next.filePatterns
               /\ handles' = next.handles
               /\ emitted' = next.emitted
               /\ console' = next.console
               /\ UNCHANGED nonWatchVars

\* a watcher that is open reports an error
WatcherError ==
    \E h \in 1..Len(handles) :
        /\ ~handles[h].closed
        /\ LET next == [ This EXCEPT !.emitted = Append(@, "error") ]
           IN  /\ Fits(next)
               /\ watcher' = next.watcher
               /\ filePatterns' = next.filePatterns
               /\ handles' = next.handles
               /\ emitted' = next.emitted
               /\ console' = next.console
               /\ UNCHANGED nonWatchVars

\* a watcher that is open reports a change under watchPath
FileEvent ==
    \E h \in 1..Len(handles), event \in FileEvents :
        /\ ~handles[h].closed
        /\ LET next == handleFileEvent(This, event)
           IN  /\ Fits(next)
               /\ watcher' = next.watcher
               /\ filePatterns' = next.filePatterns
               /\ handles' = next.handles
               /\ emitted' = next.emitted
               /\ console' = next.console
               /\ UNCHANGED nonWatchVars

WatchNext == Start \/ Stop \/ SetFilePatterns \/ Ready \/ WatcherError \/ FileEvent

\* ------------------------------------------------------------------------
\* ConfigManager (config/config-manager.ts): the naming.config file. A text
\* is a sequence of tokens: "=", ",", " ", "[", "]", the line break, and
\* words, each a run of characters that are none of these
\* ------------------------------------------------------------------------
LineBreak == "\n"

\* an optional field that is not set
NoFolders == "<undefined>"
NoExceptions == << << "<undefined>" >> >>
NoCode == [ undefined |-> "<undefined>" ]

defaultConfig ==
    [ convention |-> "camelCase",
      files |-> << << "*.ts" >>, << "*.js" >> >>,
      folders |-> "kebab-case",
      exceptions |-> << << "index" >>, << "main" >>, << "app" >> >>,
      code |-> getDefaultCodeConfig ]

\* s.split(separator): the pieces between the separators, empty ones kept
RECURSIVE SplitAt(_, _, _)
SplitAt(s, separator, piece) ==
    IF s = <<>> THEN << piece >>
    ELSE IF s[1] = separator
         THEN << piece >> \o SplitAt(Tail(s), separator, <<>>)
         ELSE SplitAt(Tail(s), separator, Append(piece, s[1]))

\* s.trim()
RECURSIVE trim(_)
trim(s) ==
    IF s = <<>> THEN s
    ELSE IF IsSpace(s[1]) THEN trim(Tail(s))
    ELSE IF IsSpace(s[Len(s)]) THEN trim(SubSeq(s, 1, Len(s) - 1))
    ELSE s

\* .map(s => s.trim())
TrimEach(pieces) == [ i \in 1..Len(pieces) |-> trim(pieces[i]) ]

\* lines 137-142: the value is one word and the word is a convention
isValidConvention(value) ==
    /\ Len(value) = 1
    /\ value[1] \in { "camelCase", "snake_case", "kebab-case", "PascalCase",
                      "UPPER_SNAKE_CASE" }

validCodeKeys ==
    << "variables", "functions", "components", "constants",
       "classes", "interfaces", "types", "enums" >>

\* the object with key set to value
WithKey(object, key, value) ==
    [ k \in DOMAIN object \cup { key } |-> IF k = key THEN value ELSE object[k] ]

\* lines 69-91, the switch on the key of a line of [naming]
ParseNaming(cfg, key, value) ==
    IF key = << "convention" >>
    THEN IF value # <<>> /\ isValidConvention(value)
         THEN WithKey(cfg, "convention", value[1]) ELSE cfg
    ELSE IF key = << "files" >>
    THEN IF value # <<>>
         THEN WithKey(cfg, "files", TrimEach(SplitAt(value, ",", <<>>))) ELSE cfg
    ELSE IF key = << "folders" >>
    THEN IF value # <<>> /\ isValidConvention(value)
         THEN WithKey(cfg, "folders", value[1]) ELSE cfg
    ELSE IF key = << "exceptions" >>
    THEN IF value # <<>>
         THEN WithKey(cfg, "exceptions", TrimEach(SplitAt(value, ",", <<>>)))
         ELSE cfg
    ELSE cfg

\* lines 92-102
ParseCode(codeConfig, key, value) ==
    IF /\ \E i \in 1..Len(validCodeKeys) : key = << validCodeKeys[i] >>
       /\ value # <<>>
       /\ isValidConvention(value)
    THEN WithKey(codeConfig, key[1], value[1])
    ELSE codeConfig

\* lines 57-103, the body of the loop over the lines
ParseLine(line, parsed) ==
    LET trimmed == trim(line)
        pieces == TrimEach(SplitAt(trimmed, "=", <<>>))
    IN  IF trimmed # <<>> /\ trimmed[1] = "[" /\ trimmed[Len(trimmed)] = "]"
        THEN [ parsed EXCEPT !.currentSection = SubSeq(trimmed, 2, Len(trimmed) - 1) ]
        ELSE IF ~(\E i \in 1..Len(trimmed) : trimmed[i] = "=")
        THEN parsed
        ELSE IF parsed.currentSection = << "naming" >>
        THEN [ parsed EXCEPT !.config = ParseNaming(@, pieces[1], pieces[2]) ]
        ELSE IF parsed.currentSection = << "code" >>
        THEN [ parsed EXCEPT !.codeConfig = ParseCode(@, pieces[1], pieces[2]) ]
        ELSE parsed

RECURSIVE ParseLines(_, _)
ParseLines(lines, parsed) ==
    IF lines = <<>> THEN parsed
    ELSE ParseLines(Tail(lines), ParseLine(lines[1], parsed))

\* { ...base, ...over }
Spread(base, over) ==
    [ k \in DOMAIN base \cup DOMAIN over |->
        IF k \in DOMAIN over THEN over[k] ELSE base[k] ]

\* lines 51-110
parseConfig(content) ==
    LET empty == [ k \in {} |-> "" ]
        parsed == ParseLines(SplitAt(content, LineBreak, <<>>),
                             [ config |-> empty, codeConfig |-> empty,
                               currentSection |-> <<>> ])
        merged == IF DOMAIN parsed.codeConfig # {}
                  THEN WithKey(parsed.config, "code",
                               Spread(defaultConfig.code, parsed.codeConfig))
                  ELSE parsed.config
    IN  Spread(defaultConfig, merged)

\* the lines of [code], one per key
RECURSIVE CodeLines(_, _)
CodeLines(code, i) ==
    IF i > Len(validCodeKeys) THEN <<>>
    ELSE << validCodeKeys[i], "=", code[validCodeKeys[i]], LineBreak >>
         \o CodeLines(code, i + 1)

\* lines 112-135: an empty text is falsy, so x || y is y for it
stringifyConfig(cfg) ==
    LET joined == IF cfg.exceptions = NoExceptions THEN <<>>
                  ELSE join(cfg.exceptions, << "," >>)
    IN  << "[", "naming", "]", LineBreak >>
        \o << "convention", "=", cfg.convention, LineBreak >>
        \o << "files", "=" >> \o join(cfg.files, << "," >>) \o << LineBreak >>
        \o << "folders", "=",
              IF cfg.folders = NoFolders THEN "kebab-case" ELSE cfg.folders,
              LineBreak >>
        \o << "exceptions", "=" >> \o joined \o << LineBreak >>
        \o (IF cfg.code # NoCode
            THEN << LineBreak, "[", "code", "]", LineBreak >> \o CodeLines(cfg.code, 1)
            ELSE <<>>)

\* existsSync(this.configPath) is false
NoFile == << "<no file>" >>
NotLoaded == [ pending |-> TRUE ]
NotSaved == [ pending |-> TRUE ]

\* the configurations saveConfig is given
FileLists ==
    { << << "*.ts" >> >>, << << "*.ts" >>, << "*.js" >> >>, << << "src/**" >> >> }

ExceptionFields ==
    { NoExceptions, <<>>, << << "index" >> >>,
      << << "index" >>, << "main" >>, << "app" >> >>,
      << << "my", " ", "file" >>, << "README" >> >> }

CodeFields ==
    { NoCode, getDefaultCodeConfig,
      [ getDefaultCodeConfig EXCEPT !.variables = "snake_case", !.enums = "kebab-case" ] }

NamingConfigs ==
    [ convention : NamingConvention,
      files : FileLists,
      folders : { "kebab-case", "snake_case", NoFolders },
      exceptions : ExceptionFields,
      code : CodeFields ]

\* lines 42-49
SaveConfig ==
    \E c \in NamingConfigs :
        /\ configFile' = stringifyConfig(c)
        /\ savedConfig' = c
        /\ loadedConfig' = NotLoaded
        /\ UNCHANGED nonSettingsVars

\* lines 148-150
CreateDefaultConfig ==
    /\ configFile' = stringifyConfig(defaultConfig)
    /\ savedConfig' = defaultConfig
    /\ loadedConfig' = NotLoaded
    /\ UNCHANGED nonSettingsVars

\* lines 28-40
LoadConfig ==
    /\ loadedConfig = NotLoaded
    /\ loadedConfig' = IF configFile = NoFile THEN defaultConfig
                       ELSE parseConfig(configFile)
    /\ UNCHANGED <<configFile, savedConfig>>
    /\ UNCHANGED nonSettingsVars

SettingsNext == SaveConfig \/ CreateDefaultConfig \/ LoadConfig

\* ------------------------------------------------------------------------
\* renameCommand (README.md, the listing of cli.ts): the files of one
\* directory, the list of renames and the loop that carries them out
\* ------------------------------------------------------------------------
\* the entries readdirSync may list, in its order: a_b.b, a-b.b, aB.b,
\* A.b, a.b, a.def, .a
DirectoryEntries ==
    << << "a", "_", "b", ".", "b" >>,
       << "a", "-", "b", ".", "b" >>,
       << "a", "B", ".", "b" >>,
       << "A", ".", "b" >>,
       << "a", ".", "b" >>,
       << "a", ".", "d", "e", "f" >>,
       << ".", "a" >> >>

EntrySet == { DirectoryEntries[i] : i \in 1..Len(DirectoryEntries) }

\* a directory maps the names it holds to the files; a file is known by
\* the name it had when the command started
Directories == { [ n \in S |-> n ] : S \in SUBSET EntrySet }

\* SuggestionEngine.shouldIgnore: of the ignored names only those that
\* begin with a dot can be among the entries
shouldIgnore(filename) == filename[1] = "."

\* SuggestionEngine.getAllProjectFiles, for a directory without
\* subdirectories
getAllProjectFiles(dir) ==
    SelectSeq(DirectoryEntries, LAMBDA entry : entry \in DOMAIN dir /\ ~shouldIgnore(entry))

\* String.prototype.endsWith
endsWith(s, suffix) ==
    /\ Len(suffix) <= Len(s)
    /\ SubSeq(s, Len(s) - Len(suffix) + 1, Len(s)) = suffix

\* of excludedExtensions, the one an entry can end with
excludedExtensions == { << ".", "d", "e", "f" >> }

\* the checks that skip a file, lines 1173-1200; no entry is in
\* defaultExclusions and none contains 'config'
IsExcludedFromRename(name, keepFiles) ==
    \/ name[1] = "."
    \/ Includes(keepFiles, name)
    \/ \E ext \in excludedExtensions : endsWith(toLowerCase(name), toLowerCase(ext))

\* the loop of lines 1172-1217
RECURSIVE CollectRenames(_, _, _, _)
CollectRenames(files, convention, exceptionList, keepFiles) ==
    IF files = <<>> THEN <<>>
    ELSE LET name == files[1]
             checked == validateName(name, convention, exceptionList)
         IN  (IF /\ ~IsExcludedFromRename(name, keepFiles)
                 /\ ~checked.isValid
                 /\ checked.expectedName # <<>>
              THEN << [ oldName |-> name, newName |-> checked.expectedName ] >>
              ELSE <<>>)
             \o CollectRenames(Tail(files), convention, exceptionList, keepFiles)

Nothing == <<>>

\* fs.renameSync: it throws when the old path does not exist, and it
\* replaces the file at the new path when there is one
renameSync(dir, oldName, newName) ==
    IF oldName \notin DOMAIN dir
    THEN [ threw |-> TRUE, dir |-> dir, replaced |-> Nothing ]
    ELSE [ threw |-> FALSE,
           dir |-> [ n \in (DOMAIN dir \ { oldName }) \cup { newName } |->
                       IF n = newName THEN dir[oldName] ELSE dir[n] ],
           replaced |-> IF newName \in DOMAIN dir /\ newName # oldName
                        THEN dir[newName] ELSE Nothing ]

RenameOptions ==
    { [ dryRun |-> d, force |-> f, keep |-> k ] :
        d \in BOOLEAN, f \in BOOLEAN,
        k \in { <<>>, << << "A", ".", "b" >> >> } }

NoTally == [ successCount |-> 0, errorCount |-> 0, skippedCount |-> 0 ]

\* lines 1126-1232: the files are listed and the renames collected; the
\* command returns when there is none and after a dry run
CollectFiles ==
    /\ stage = "collect"
    /\ LET collected == CollectRenames(getAllProjectFiles(directory), conv,
                                       exceptions, options.keep)
       IN  /\ filesToRename' = collected
           /\ stage' = IF collected = <<>> \/ options.dryRun THEN "done" ELSE "rename"
    /\ UNCHANGED <<directory, options, position, tally, renamed, conv, exceptions>>
    /\ UNCHANGED nonRenameVars

\* the try block of lines 1250-1257 and 1276-1283
Renamed(file) ==
    LET moved == renameSync(directory, file.oldName, file.newName)
    IN  /\ directory' = moved.dir
        /\ tally' = IF moved.threw
                    THEN [ tally EXCEPT !.errorCount = @ + 1 ]
                    ELSE [ tally EXCEPT !.successCount = @ + 1 ]
        /\ renamed' = IF moved.threw THEN renamed
                      ELSE Append(renamed, [ oldName |-> file.oldName,
                                             newName |-> file.newName,
                                             replaced |-> moved.replaced ])

Advance ==
    /\ position' = position + 1
    /\ stage' = IF position = Len(filesToRename) THEN "done" ELSE "rename"

\* lines 1241-1257: the user confirms the rename
ConfirmRename ==
    /\ stage = "rename"
    /\ ~options.force
    /\ Renamed(filesToRename[position])
    /\ Advance
    /\ UNCHANGED <<options, filesToRename, conv, exceptions>>
    /\ UNCHANGED nonRenameVars

\* lines 1258-1261: the user declines
DeclineRename ==
    /\ stage = "rename"
    /\ ~options.force
    /\ tally' = [ tally EXCEPT !.skippedCount = @ + 1 ]
    /\ Advance
    /\ UNCHANGED <<directory, options, filesToRename, renamed, conv, exceptions>>
    /\ UNCHANGED nonRenameVars

\* lines 1269-1284: --force renames without asking
ForceRename ==
    /\ stage = "rename"
    /\ options.force
    /\ Renamed(filesToRename[position])
    /\ Advance
    /\ UNCHANGED <<options, filesToRename, conv, exceptions>>
    /\ UNCHANGED nonRenameVars

RenameNext == CollectFiles \/ ConfirmRename \/ DeclineRename \/ ForceRename

\* a name and a convention to convert; the other components are not in use
CodecInit ==
    /\ fname \in FileNames
    /\ conv \in NamingConvention
    /\ op = "none"
    /\ res = NoResult
    /\ prev = NoResult
    /\ identifier = [ name |-> <<>>, type |-> "variable", isReactComponent |-> FALSE ]
    /\ config = getDefaultCodeConfig
    /\ outcome = NoOutcome
    /\ fixes = NoFixes
    /\ names = <<>>
    /\ permuted = <<>>
    /\ detected = NotDetected
    /\ detectedPermuted = NotDetected
    /\ tree = Program(<<>>)
    /\ analyzed = FALSE
    /\ identifiers = <<>>
    /\ batch = <<>>
    /\ summary = NoSummary
    /\ disk = [ f \in RelPathSet |-> [ status |-> "unreadable", tree |-> Program(<<>>) ] ]
    /\ patterns = <<>>
    /\ project = NoProject
    /\ exceptions = <<>>
    /\ validation = NoValidation
    /\ suggestion = NoSuggestion
    /\ ranking = NoRanking
    /\ heap = [ size |-> 1, parentOf |-> <<>>, kinds |-> << "Unknown" >>, links |-> {} ]
    /\ frames = <<>>
    /\ visited = <<>>
    /\ found = <<>>
    /\ status = "idle"
    /\ watcher = NoWatcher
    /\ filePatterns = << "**/*" >>
    /\ handles = <<>>
    /\ emitted = <<>>
    /\ console = <<>>
    /\ configFile = NoFile
    /\ savedConfig = NotSaved
    /\ loadedConfig = NotLoaded
    /\ directory = [ n \in {} |-> n ]
    /\ options = [ dryRun |-> FALSE, force |-> FALSE, keep |-> <<>> ]
    /\ filesToRename = <<>>
    /\ position = 1
    /\ tally = NoTally
    /\ renamed = <<>>
    /\ stage = "done"

\* an identifier and a configuration to validate
ValidateInit ==
    /\ fname = <<>>
    /\ conv = "camelCase"
    /\ op = "idle"
    /\ res = NoResult
    /\ prev = NoResult
    /\ identifier \in
          [ name : IdentifierNames, type : IdentifierTypes, isReactComponent : BOOLEAN ]
    /\ config \in Configs
    /\ outcome = NoOutcome
    /\ fixes = NoFixes
    /\ names = <<>>
    /\ permuted = <<>>
    /\ detected = NotDetected
    /\ detectedPermuted = NotDetected
    /\ tree = Program(<<>>)
    /\ analyzed = FALSE
    /\ identifiers = <<>>
    /\ batch = <<>>
    /\ summary = NoSummary
    /\ disk = [ f \in RelPathSet |-> [ status |-> "unreadable", tree |-> Program(<<>>) ] ]
    /\ patterns = <<>>
    /\ project = NoProject
    /\ exceptions = <<>>
    /\ validation = NoValidation
    /\ suggestion = NoSuggestion
    /\ ranking = NoRanking
    /\ heap = [ size |-> 1, parentOf |-> <<>>, kinds |-> << "Unknown" >>, links |-> {} ]
    /\ frames = <<>>
    /\ visited = <<>>
    /\ found = <<>>
    /\ status = "idle"
    /\ watcher = NoWatcher
    /\ filePatterns = << "**/*" >>
    /\ handles = <<>>
    /\ emitted = <<>>
    /\ console = <<>>
    /\ configFile = NoFile
    /\ savedConfig = NotSaved
    /\ loadedConfig = NotLoaded
    /\ directory = [ n \in {} |-> n ]
    /\ options = [ dryRun |-> FALSE, force |-> FALSE, keep |-> <<>> ]
    /\ filesToRename = <<>>
    /\ position = 1
    /\ tally = NoTally
    /\ renamed = <<>>
    /\ stage = "done"

\* a list of names and a reordering of it to detect
DetectInit ==
    /\ fname = <<>>
    /\ conv = "camelCase"
    /\ op = "idle"
    /\ res = NoResult
    /\ prev = NoResult
    /\ identifier = [ name |-> <<>>, type |-> "variable", isReactComponent |-> FALSE ]
    /\ config = getDefaultCodeConfig
    /\ outcome = NoOutcome
    /\ fixes = NoFixes
    /\ names \in ListsUpTo(SampleNames, MaxNames)
    /\ permuted \in Reorderings(names)
    /\ detected = NotDetected
    /\ detectedPermuted = NotDetected
    /\ tree = Program(<<>>)
    /\ analyzed = FALSE
    /\ identifiers = <<>>
    /\ batch = <<>>
    /\ summary = NoSummary
    /\ disk = [ f \in RelPathSet |-> [ status |-> "unreadable", tree |-> Program(<<>>) ] ]
    /\ patterns = <<>>
    /\ project = NoProject
    /\ exceptions = <<>>
    /\ validation = NoValidation
    /\ suggestion = NoSuggestion
    /\ ranking = NoRanking
    /\ heap = [ size |-> 1, parentOf |-> <<>>, kinds |-> << "Unknown" >>, links |-> {} ]
    /\ frames = <<>>
    /\ visited = <<>>
    /\ found = <<>>
    /\ status = "idle"
    /\ watcher = NoWatcher
    /\ filePatterns = << "**/*" >>
    /\ handles = <<>>
    /\ emitted = <<>>
    /\ console = <<>>
    /\ configFile = NoFile
    /\ savedConfig = NotSaved
    /\ loadedConfig = NotLoaded
    /\ directory = [ n \in {} |-> n ]
    /\ options = [ dryRun |-> FALSE, force |-> FALSE, keep |-> <<>> ]
    /\ filesToRename = <<>>
    /\ position = 1
    /\ tally = NoTally
    /\ renamed = <<>>
    /\ stage = "done"

\* a parsed tree to walk
AstInit ==
    /\ fname = <<>>
    /\ conv = "camelCase"
    /\ op = "idle"
    /\ res = NoResult
    /\ prev = NoResult
    /\ identifier = [ name |-> <<>>, type |-> "variable", isReactComponent |-> FALSE ]
    /\ config = getDefaultCodeConfig
    /\ outcome = NoOutcome
    /\ fixes = NoFixes
    /\ names = <<>>
    /\ permuted = <<>>
    /\ detected = NotDetected
    /\ detectedPermuted = NotDetected
    /\ tree \in Trees
    /\ analyzed = FALSE
    /\ identifiers = <<>>
    /\ batch = <<>>
    /\ summary = NoSummary
    /\ disk = [ f \in RelPathSet |-> [ status |-> "unreadable", tree |-> Program(<<>>) ] ]
    /\ patterns = <<>>
    /\ project = NoProject
    /\ exceptions = <<>>
    /\ validation = NoValidation
    /\ suggestion = NoSuggestion
    /\ ranking = NoRanking
    /\ heap = [ size |-> 1, parentOf |-> <<>>, kinds |-> << "Unknown" >>, links |-> {} ]
    /\ frames = <<>>
    /\ visited = <<>>
    /\ found = <<>>
    /\ status = "idle"
    /\ watcher = NoWatcher
    /\ filePatterns = << "**/*" >>
    /\ handles = <<>>
    /\ emitted = <<>>
    /\ console = <<>>
    /\ configFile = NoFile
    /\ savedConfig = NotSaved
    /\ loadedConfig = NotLoaded
    /\ directory = [ n \in {} |-> n ]
    /\ options = [ dryRun |-> FALSE, force |-> FALSE, keep |-> <<>> ]
    /\ filesToRename = <<>>
    /\ position = 1
    /\ tally = NoTally
    /\ renamed = <<>>
    /\ stage = "done"

\* a list of identifiers and a configuration to validate together
BatchInit ==
    /\ fname = <<>>
    /\ conv = "camelCase"
    /\ op = "idle"
    /\ res = NoResult
    /\ prev = NoResult
    /\ identifier = [ name |-> <<>>, type |-> "variable", isReactComponent |-> FALSE ]
    /\ config \in Configs
    /\ outcome = NoOutcome
    /\ fixes = NoFixes
    /\ names = <<>>
    /\ permuted = <<>>
    /\ detected = NotDetected
    /\ detectedPermuted = NotDetected
    /\ tree = Program(<<>>)
    /\ analyzed = FALSE
    /\ identifiers = <<>>
    /\ batch \in ListsUpTo(BatchIdentifiers, MaxBatch)
    /\ summary = NoSummary
    /\ disk = [ f \in RelPathSet |-> [ status |-> "unreadable", tree |-> Program(<<>>) ] ]
    /\ patterns = <<>>
    /\ project = NoProject
    /\ exceptions = <<>>
    /\ validation = NoValidation
    /\ suggestion = NoSuggestion
    /\ ranking = NoRanking
    /\ heap = [ size |-> 1, parentOf |-> <<>>, kinds |-> << "Unknown" >>, links |-> {} ]
    /\ frames = <<>>
    /\ visited = <<>>
    /\ found = <<>>
    /\ status = "idle"
    /\ watcher = NoWatcher
    /\ filePatterns = << "**/*" >>
    /\ handles = <<>>
    /\ emitted = <<>>
    /\ console = <<>>
    /\ configFile = NoFile
    /\ savedConfig = NotSaved
    /\ loadedConfig = NotLoaded
    /\ directory = [ n \in {} |-> n ]
    /\ options = [ dryRun |-> FALSE, force |-> FALSE, keep |-> <<>> ]
    /\ filesToRename = <<>>
    /\ position = 1
    /\ tally = NoTally
    /\ renamed = <<>>
    /\ stage = "done"

\* the files of a project and the glob patterns to analyze
ProjectInit ==
    /\ fname = <<>>
    /\ conv = "camelCase"
    /\ op = "idle"
    /\ res = NoResult
    /\ prev = NoResult
    /\ identifier = [ name |-> <<>>, type |-> "variable", isReactComponent |-> FALSE ]
    /\ config = getDefaultCodeConfig
    /\ outcome = NoOutcome
    /\ fixes = NoFixes
    /\ names = <<>>
    /\ permuted = <<>>
    /\ detected = NotDetected
    /\ detectedPermuted = NotDetected
    /\ tree = Program(<<>>)
    /\ analyzed = FALSE
    /\ identifiers = <<>>
    /\ batch = <<>>
    /\ summary = NoSummary
    /\ disk \in [ RelPathSet -> FileContents ]
    /\ patterns \in ListsUpTo(SUBSET RelPathSet, MaxPatterns)
    /\ project = NoProject
    /\ exceptions = <<>>
    /\ validation = NoValidation
    /\ suggestion = NoSuggestion
    /\ ranking = NoRanking
    /\ heap = [ size |-> 1, parentOf |-> <<>>, kinds |-> << "Unknown" >>, links |-> {} ]
    /\ frames = <<>>
    /\ visited = <<>>
    /\ found = <<>>
    /\ status = "idle"
    /\ watcher = NoWatcher
    /\ filePatterns = << "**/*" >>
    /\ handles = <<>>
    /\ emitted = <<>>
    /\ console = <<>>
    /\ configFile = NoFile
    /\ savedConfig = NotSaved
    /\ loadedConfig = NotLoaded
    /\ directory = [ n \in {} |-> n ]
    /\ options = [ dryRun |-> FALSE, force |-> FALSE, keep |-> <<>> ]
    /\ filesToRename = <<>>
    /\ position = 1
    /\ tally = NoTally
    /\ renamed = <<>>
    /\ stage = "done"

\* a file name, a convention and an exceptions list to check
FileInit ==
    /\ fname \in CheckedFileNames
    /\ conv \in NamingConvention
    /\ op = "idle"
    /\ res = NoResult
    /\ prev = NoResult
    /\ identifier = [ name |-> <<>>, type |-> "variable", isReactComponent |-> FALSE ]
    /\ config = getDefaultCodeConfig
    /\ outcome = NoOutcome
    /\ fixes = NoFixes
    /\ names = <<>>
    /\ permuted = <<>>
    /\ detected = NotDetected
    /\ detectedPermuted = NotDetected
    /\ tree = Program(<<>>)
    /\ analyzed = FALSE
    /\ identifiers = <<>>
    /\ batch = <<>>
    /\ summary = NoSummary
    /\ disk = [ f \in RelPathSet |-> [ status |-> "unreadable", tree |-> Program(<<>>) ] ]
    /\ patterns = <<>>
    /\ project = NoProject
    /\ exceptions \in ExceptionLists
    /\ validation = NoValidation
    /\ suggestion = NoSuggestion
    /\ ranking = NoRanking
    /\ heap = [ size |-> 1, parentOf |-> <<>>, kinds |-> << "Unknown" >>, links |-> {} ]
    /\ frames = <<>>
    /\ visited = <<>>
    /\ found = <<>>
    /\ status = "idle"
    /\ watcher = NoWatcher
    /\ filePatterns = << "**/*" >>
    /\ handles = <<>>
    /\ emitted = <<>>
    /\ console = <<>>
    /\ configFile = NoFile
    /\ savedConfig = NotSaved
    /\ loadedConfig = NotLoaded
    /\ directory = [ n \in {} |-> n ]
    /\ options = [ dryRun |-> FALSE, force |-> FALSE, keep |-> <<>> ]
    /\ filesToRename = <<>>
    /\ position = 1
    /\ tally = NoTally
    /\ renamed = <<>>
    /\ stage = "done"

\* an object graph to traverse
WalkInit ==
    /\ fname = <<>>
    /\ conv = "camelCase"
    /\ op = "idle"
    /\ res = NoResult
    /\ prev = NoResult
    /\ identifier = [ name |-> <<>>, type |-> "variable", isReactComponent |-> FALSE ]
    /\ config = getDefaultCodeConfig
    /\ outcome = NoOutcome
    /\ fixes = NoFixes
    /\ names = <<>>
    /\ permuted = <<>>
    /\ detected = NotDetected
    /\ detectedPermuted = NotDetected
    /\ tree = Program(<<>>)
    /\ analyzed = FALSE
    /\ identifiers = <<>>
    /\ batch = <<>>
    /\ summary = NoSummary
    /\ disk = [ f \in RelPathSet |-> [ status |-> "unreadable", tree |-> Program(<<>>) ] ]
    /\ patterns = <<>>
    /\ project = NoProject
    /\ exceptions = <<>>
    /\ validation = NoValidation
    /\ suggestion = NoSuggestion
    /\ ranking = NoRanking
    /\ heap \in Heaps
    /\ frames = <<>>
    /\ visited = <<>>
    /\ found = <<>>
    /\ status = "ready"
    /\ watcher = NoWatcher
    /\ filePatterns = << "**/*" >>
    /\ handles = <<>>
    /\ emitted = <<>>
    /\ console = <<>>
    /\ configFile = NoFile
    /\ savedConfig = NotSaved
    /\ loadedConfig = NotLoaded
    /\ directory = [ n \in {} |-> n ]
    /\ options = [ dryRun |-> FALSE, force |-> FALSE, keep |-> <<>> ]
    /\ filesToRename = <<>>
    /\ position = 1
    /\ tally = NoTally
    /\ renamed = <<>>
    /\ stage = "done"

\* a FileWatcher after construction, with the patterns it was given
WatchInit ==
    /\ fname = <<>>
    /\ conv = "camelCase"
    /\ op = "idle"
    /\ res = NoResult
    /\ prev = NoResult
    /\ identifier = [ name |-> <<>>, type |-> "variable", isReactComponent |-> FALSE ]
    /\ config = getDefaultCodeConfig
    /\ outcome = NoOutcome
    /\ fixes = NoFixes
    /\ names = <<>>
    /\ permuted = <<>>
    /\ detected = NotDetected
    /\ detectedPermuted = NotDetected
    /\ tree = Program(<<>>)
    /\ analyzed = FALSE
    /\ identifiers = <<>>
    /\ batch = <<>>
    /\ summary = NoSummary
    /\ disk = [ f \in RelPathSet |-> [ status |-> "unreadable", tree |-> Program(<<>>) ] ]
    /\ patterns = <<>>
    /\ project = NoProject
    /\ exceptions = <<>>
    /\ validation = NoValidation
    /\ suggestion = NoSuggestion
    /\ ranking = NoRanking
    /\ heap = [ size |-> 1, parentOf |-> <<>>, kinds |-> << "Unknown" >>, links |-> {} ]
    /\ frames = <<>>
    /\ visited = <<>>
    /\ found = <<>>
    /\ status = "idle"
    /\ watcher = NoWatcher
    /\ filePatterns \in PatternLists
    /\ handles = <<>>
    /\ emitted = <<>>
    /\ console = <<>>
    /\ configFile = NoFile
    /\ savedConfig = NotSaved
    /\ loadedConfig = NotLoaded
    /\ directory = [ n \in {} |-> n ]
    /\ options = [ dryRun |-> FALSE, force |-> FALSE, keep |-> <<>> ]
    /\ filesToRename = <<>>
    /\ position = 1
    /\ tally = NoTally
    /\ renamed = <<>>
    /\ stage = "done"

\* a ConfigManager of a project that has no naming.config yet
SettingsInit ==
    /\ fname = <<>>
    /\ conv = "camelCase"
    /\ op = "idle"
    /\ res = NoResult
    /\ prev = NoResult
    /\ identifier = [ name |-> <<>>, type |-> "variable", isReactComponent |-> FALSE ]
    /\ config = getDefaultCodeConfig
    /\ outcome = NoOutcome
    /\ fixes = NoFixes
    /\ names = <<>>
    /\ permuted = <<>>
    /\ detected = NotDetected
    /\ detectedPermuted = NotDetected
    /\ tree = Program(<<>>)
    /\ analyzed = FALSE
    /\ identifiers = <<>>
    /\ batch = <<>>
    /\ summary = NoSummary
    /\ disk = [ f \in RelPathSet |-> [ status |-> "unreadable", tree |-> Program(<<>>) ] ]
    /\ patterns = <<>>
    /\ project = NoProject
    /\ exceptions = <<>>
    /\ validation = NoValidation
    /\ suggestion = NoSuggestion
    /\ ranking = NoRanking
    /\ heap = [ size |-> 1, parentOf |-> <<>>, kinds |-> << "Unknown" >>, links |-> {} ]
    /\ frames = <<>>
    /\ visited = <<>>
    /\ found = <<>>
    /\ status = "idle"
    /\ watcher = NoWatcher
    /\ filePatterns = << "**/*" >>
    /\ handles = <<>>
    /\ emitted = <<>>
    /\ console = <<>>
    /\ configFile = NoFile
    /\ savedConfig = NotSaved
    /\ loadedConfig = NotLoaded
    /\ directory = [ n \in {} |-> n ]
    /\ options = [ dryRun |-> FALSE, force |-> FALSE, keep |-> <<>> ]
    /\ filesToRename = <<>>
    /\ position = 1
    /\ tally = NoTally
    /\ renamed = <<>>
    /\ stage = "done"

\* the rename command on a directory, with the loaded convention and exceptions
RenameInit ==
    /\ fname = <<>>
    /\ conv \in NamingConvention
    /\ op = "idle"
    /\ res = NoResult
    /\ prev = NoResult
    /\ identifier = [ name |-> <<>>, type |-> "variable", isReactComponent |-> FALSE ]
    /\ config = getDefaultCodeConfig
    /\ outcome = NoOutcome
    /\ fixes = NoFixes
    /\ names = <<>>
    /\ permuted = <<>>
    /\ detected = NotDetected
    /\ detectedPermuted = NotDetected
    /\ tree = Program(<<>>)
    /\ analyzed = FALSE
    /\ identifiers = <<>>
    /\ batch = <<>>
    /\ summary = NoSummary
    /\ disk = [ f \in RelPathSet |-> [ status |-> "unreadable", tree |-> Program(<<>>) ] ]
    /\ patterns = <<>>
    /\ project = NoProject
    /\ exceptions \in { <<>>, << << "a" >> >> }
    /\ validation = NoValidation
    /\ suggestion = NoSuggestion
    /\ ranking = NoRanking
    /\ heap = [ size |-> 1, parentOf |-> <<>>, kinds |-> << "Unknown" >>, links |-> {} ]
    /\ frames = <<>>
    /\ visited = <<>>
    /\ found = <<>>
    /\ status = "idle"
    /\ watcher = NoWatcher
    /\ filePatterns = << "**/*" >>
    /\ handles = <<>>
    /\ emitted = <<>>
    /\ console = <<>>
    /\ configFile = NoFile
    /\ savedConfig = NotSaved
    /\ loadedConfig = NotLoaded
    /\ directory \in Directories
    /\ options \in RenameOptions
    /\ filesToRename = <<>>
    /\ position = 1
    /\ tally = NoTally
    /\ renamed = <<>>
    /\ stage = "collect"

SpecCodec == CodecInit /\ [][CodecNext]_vars

SpecValidate == ValidateInit /\ [][ValidateNext]_vars

SpecDetect == DetectInit /\ [][DetectNext]_vars

SpecAst == AstInit /\ [][AstNext]_vars

SpecBatch == BatchInit /\ [][BatchNext]_vars

SpecProject == ProjectInit /\ [][ProjectNext]_vars

SpecFile == FileInit /\ [][FileNext]_vars

SpecWalk == WalkInit /\ [][WalkNext]_vars /\ WF_vars(WalkNext)

SpecWatch == WatchInit /\ [][WatchNext]_vars

SpecSettings == SettingsInit /\ [][SettingsNext]_vars

SpecRename == RenameInit /\ [][RenameNext]_vars

\* ------------------------------------------------------------------------
\* The codec of the specification (sections 4.1 and 4.2), stated on its own
\* terms for the claims that compare the code with it
\* ------------------------------------------------------------------------
IsBoundaryChar(c) == c \in { "_", "-", " " }

\* the words of s[i..]: cur is the word being read, last the character before s[i]
RECURSIVE SegmentFrom(_, _, _, _)
SegmentFrom(s, i, cur, last) ==
    LET close == IF cur = <<>> THEN <<>> ELSE << cur >>
    IN  IF i > Len(s) THEN close
        ELSE IF IsBoundaryChar(s[i]) THEN close \o SegmentFrom(s, i + 1, <<>>, s[i])
        ELSE IF IsLower(last) /\ IsUpper(s[i])
             THEN close \o SegmentFrom(s, i + 1, << ToLowerChar(s[i]) >>, s[i])
        ELSE SegmentFrom(s, i + 1, Append(cur, ToLowerChar(s[i])), s[i])

Segment(s) == SegmentFrom(s, 1, <<>>, " ")

Capitalized(w) == << ToUpperChar(w[1]) >> \o Tail(w)

RECURSIVE Concat(_, _)
Concat(words, sep) ==
    IF words = <<>> THEN <<>>
    ELSE words[1] \o (IF Len(words) > 1 THEN sep ELSE <<>>) \o Concat(Tail(words), sep)

Join(words, c) ==
    IF words = <<>> THEN <<>>
    ELSE CASE c = "camelCase" ->
                words[1] \o Concat([i \in 1..(Len(words) - 1) |-> Capitalized(words[i + 1])], <<>>)
           [] c = "snake_case" -> Concat(words, << "_" >>)
           [] c = "kebab-case" -> Concat(words, << "-" >>)
           [] c = "PascalCase" ->
                Concat([i \in 1..Len(words) |-> Capitalized(words[i])], <<>>)
           [] c = "UPPER_SNAKE_CASE" ->
                Concat([i \in 1..Len(words) |-> toUpperCase(words[i])], << "_" >>)

HasDot(s) == \E i \in 1..Len(s) : s[i] = "."

\* a JavaScript identifier over the modelled characters
IsIdentifierName(s) ==
    /\ Len(s) > 0
    /\ \A i \in 1..Len(s) : IsAlnum(s[i]) \/ s[i] \in { "_", "$" }
    /\ ~IsDigit(s[1])

IsLetters(s) == Len(s) > 0 /\ \A i \in 1..Len(s) : IsLower(s[i]) \/ IsUpper(s[i])

\* a name that begins and ends with a letter or a digit
IsPlainName(s) == Len(s) > 0 /\ IsAlnum(s[1]) /\ IsAlnum(s[Len(s)])

IsBoundaryOnly(s) == \A i \in 1..Len(s) : IsBoundaryChar(s[i])

\* ------------------------------------------------------------------------
\* Claims on the codec
\* ------------------------------------------------------------------------
\* C1: NamingValidator.convertToConvention is idempotent: converting a
\* converted name again under the same convention reproduces it.  Stated for
\* names without a dot, where the base name is the whole name.
C1_ConvertIdempotent ==
    (op = "nvReconvert" /\ ~HasDot(fname)) => res = prev

\* C2: for every name that segments into at least one word,
\* NamingValidator.convertToConvention(s, c) is Join(Segment(s), c).
C2_ConvertIsJoinOfSegment ==
    (op = "nvConvert" /\ IsPlainName(fname) /\ Segment(fname) # <<>>) =>
        res = Join(Segment(fname), conv)

\* C3: whenever validateIdentifier reports a violation, its suggestedName is
\* the codec's conversion Join(Segment(name), expectedConvention).
C3_SuggestedNameIsConvert ==
    (outcome # NoOutcome /\ ~outcome.isValid /\ IsLetters(identifier.name)) =>
        outcome.suggestedName = Join(Segment(identifier.name), outcome.expectedConvention)

\* C4: CodeValidator's conversion is idempotent on identifier names.
C4_CodeConvertIdempotent ==
    (op = "cvReconvert" /\ IsIdentifierName(fname)) => res = prev

\* C5: an empty or boundary-only name has no words and converts to the
\* empty string under every convention.
C5_BoundaryOnlyConvertsToEmpty ==
    (op = "nvConvert" /\ IsBoundaryOnly(fname)) =>
        (extractWords(fname) = <<>> /\ res = <<>>)

\* ------------------------------------------------------------------------
\* Claims on the detector
\* ------------------------------------------------------------------------
\* the number of names of the list whose base name matches convention c
Score(c, list) ==
    Cardinality({ i \in 1..Len(list) : CONVENTION_PATTERNS(c, getBaseName(list[i])) })

Rank(c) == CHOOSE i \in 1..Len(ConventionOrder) : ConventionOrder[i] = c

\* C6: detectConvention returns the convention matched by the most base
\* names, the earliest of the conventions tied for the most, and null exactly
\* when no name matches any convention.
C6_DetectsHighestScore ==
    detected # NotDetected =>
        /\ detected = Null <=> \A c \in NamingConvention : Score(c, names) = 0
        /\ detected # Null =>
             /\ detected \in NamingConvention
             /\ \A c \in NamingConvention :
                  /\ Score(c, names) <= Score(detected, names)
                  /\ Rank(c) < Rank(detected) => Score(c, names) < Score(detected, names)

\* C6 witness: a tie between two conventions, decided for the earlier one
C6_Witness ==
    /\ detected = "snake_case"
    /\ Score("kebab-case", names) = Score("snake_case", names)
    /\ Score("camelCase", names) < Score("snake_case", names)

\* C7: detectConvention gives the same answer for a list and for any
\* reordering of it.
C7_OrderIndependent ==
    (detected # NotDetected /\ detectedPermuted # NotDetected) =>
        detected = detectedPermuted

\* C7 witness: a list in two different orders, both detected
C7_Witness ==
    /\ detected \in NamingConvention
    /\ detectedPermuted \in NamingConvention
    /\ permuted # names
    /\ Len(names) = MaxNames

\* ------------------------------------------------------------------------
\* Claims on the classifier
\* ------------------------------------------------------------------------
IsExportNode(node) ==
    node.type \in { "ExportNamedDeclaration", "ExportDefaultDeclaration" }

\* a named declaration with nothing nested in it: one declarator, or a
\* function, class, interface, type alias or enum without a body
IsOneDeclaration(node) ==
    \/ /\ node.type = "VariableDeclaration"
       /\ Len(node.kids) = 1
       /\ node.kids[1].name # <<>>
    \/ /\ node.type \in SimpleDeclarationTypes \cup { "FunctionDeclaration" }
       /\ node.name # <<>>
       /\ node.kids = <<>>

\* C8: a declaration of a recognized kind wrapped in an export node yields
\* exactly the one Identifier it yields unwrapped (where isExported is
\* false), with isExported = true.
C8_ExportPropagation ==
    ( /\ analyzed
      /\ Len(tree.kids) = 1
      /\ IsExportNode(tree.kids[1])
      /\ tree.kids[1].declaration # <<>>
      /\ IsOneDeclaration(tree.kids[1].declaration[1]) ) =>
        LET unwrapped ==
                extractIdentifiersFromNode(Program(tree.kids[1].declaration))
        IN  /\ Len(unwrapped) = 1
            /\ unwrapped[1].isExported = FALSE
            /\ identifiers = << [unwrapped[1] EXCEPT !.isExported = TRUE] >>

\* the complete trees as the parser returns them
ParsedCompleteTrees == { Parsed(t) : t \in CompleteTrees }

\* the categories of OneOfEach, in its order
OneOfEachCategories ==
    << "variable", "constant", "function", "class", "interface", "type", "enum" >>

\* C9: a tree with exactly one named declaration of each of the seven
\* categories yields exactly seven Identifiers, one per declaration, each
\* with the category of its declaration.
C9_ClassifierComplete ==
    (analyzed /\ tree \in ParsedCompleteTrees) =>
        /\ Len(identifiers) = Len(OneOfEachCategories)
        /\ \A i \in 1..Len(identifiers) :
             identifiers[i].type = OneOfEachCategories[i]

\* the declaration of a program that holds one declaration, plain or exported
TheDeclaration(program) ==
    IF IsExportNode(program.kids[1])
    THEN program.kids[1].declaration[1]
    ELSE program.kids[1]

HoldsOneDeclaration(program) ==
    /\ Len(program.kids) = 1
    /\ IsExportNode(program.kids[1]) => program.kids[1].declaration # <<>>

NamedDeclarators(declarators) == SelectSeq(declarators, LAMBDA d : d.name # <<>>)

IsFunctionValue(init) ==
    init # <<>> /\ init[1].type \in { "ArrowFunctionExpression", "FunctionExpression" }

\* C11: an Identifier is component-like only if it is a variable or a
\* function whose name starts uppercase; a variable is component-like exactly
\* when its name starts uppercase, it is not a constant and its initializer
\* is function-like, a function exactly when its name starts uppercase.
C11_ComponentFlag ==
    analyzed =>
        /\ \A i \in 1..Len(identifiers) :
             identifiers[i].isReactComponent =>
                /\ identifiers[i].type \in { "variable", "function" }
                /\ IsUpper(identifiers[i].name[1])
        /\ HoldsOneDeclaration(tree) =>
             LET d == TheDeclaration(tree)
                 named == NamedDeclarators(d.kids)
             IN  /\ d.type = "VariableDeclaration" =>
                      /\ Len(identifiers) = Len(named)
                      /\ \A i \in 1..Len(named) :
                           identifiers[i].isReactComponent <=>
                              /\ IsUpper(named[i].name[1])
                              /\ ~CONVENTION_PATTERNS("UPPER_SNAKE_CASE", named[i].name)
                              /\ IsFunctionValue(named[i].init)
                 /\ (d.type = "FunctionDeclaration" /\ d.name # <<>> /\ d.kids = <<>>) =>
                      /\ Len(identifiers) = 1
                      /\ identifiers[1].isReactComponent <=> IsUpper(d.name[1])

\* C11 witness: a constant and a component-like variable of one declaration
C11_Witness ==
    /\ analyzed
    /\ HoldsOneDeclaration(tree)
    /\ TheDeclaration(tree).type = "VariableDeclaration"
    /\ Len(identifiers) = 2
    /\ identifiers[1].type = "constant"
    /\ ~identifiers[1].isReactComponent
    /\ identifiers[2].type = "variable"
    /\ identifiers[2].isReactComponent

\* ------------------------------------------------------------------------
\* Claims on the validator
\* ------------------------------------------------------------------------
\* the configuration entry of a category
CategoryKey(type) ==
    CASE type = "variable" -> "variables"
      [] type = "function" -> "functions"
      [] type = "class" -> "classes"
      [] type = "constant" -> "constants"
      [] type = "interface" -> "interfaces"
      [] type = "type" -> "types"
      [] type = "enum" -> "enums"

C13_SuggestedIffInvalid ==
    outcome # NoOutcome =>
        (outcome.suggestedName # Undefined <=> ~outcome.isValid)

\* C13 witness: a violation whose suggestion differs from the name
C13_Witness ==
    /\ outcome # NoOutcome
    /\ ~outcome.isValid
    /\ outcome.suggestedName # Undefined
    /\ outcome.suggestedName # identifier.name
    /\ outcome.suggestedName # <<>>

\* C14: an identifier with an empty name is reported invalid, for every
\* category and configuration.
C14_EmptyNameInvalid ==
    (outcome # NoOutcome /\ identifier.name = <<>>) =>
        /\ ~outcome.isValid
        /\ outcome.suggestedName = <<>>

\* C14 witness: an empty name validated against a category's own convention
C14_Witness ==
    /\ outcome # NoOutcome
    /\ identifier.name = <<>>
    /\ ~identifier.isReactComponent
    /\ identifier.type = "enum"
    /\ ~outcome.isValid

\* ------------------------------------------------------------------------
\* Claims on the batch validation
\* ------------------------------------------------------------------------
\* the violations of the batch, recounted
Failing(ids, cfg) ==
    { i \in 1..Len(ids) :
        ~CONVENTION_PATTERNS(
            IF ids[i].isReactComponent THEN "PascalCase"
            ELSE cfg[CategoryKey(ids[i].type)], ids[i].name) }

RECURSIVE SumOver(_, _)
SumOver(counts, keys) ==
    IF keys = {} THEN 0
    ELSE LET k == CHOOSE x \in keys : TRUE
         IN  counts[k] + SumOver(counts, keys \ { k })

\* the label the violation message opens with
MessageLabel(result) == result.violation[1]

\* the totals of the summary: totalChecked is the list length,
\* totalViolations the number of identifiers that fail, and the counts of
\* the histogram sum to totalViolations
SummaryTotals ==
    /\ summary.totalChecked = Len(batch)
    /\ summary.totalViolations = Cardinality(Failing(batch, config))
    /\ Len(summary.violations) = summary.totalViolations
    /\ SumOver(summary.violationsByType, DOMAIN summary.violationsByType)
         = summary.totalViolations

\* C15 as stated: the totals, and each violation is counted under the
\* label its message uses.
C15_KeyIsMessageLabel ==
    summary # NoSummary =>
        /\ SummaryTotals
        /\ \A k \in DOMAIN summary.violationsByType \cup
                   { MessageLabel(summary.violations[i]) :
                       i \in 1..Len(summary.violations) } :
              /\ k \in DOMAIN summary.violationsByType
              /\ summary.violationsByType[k] =
                   Cardinality({ i \in 1..Len(summary.violations) :
                       MessageLabel(summary.violations[i]) = k })

\* C15 amended: the totals, and each violation is counted under
\* "React Components" when its identifier is component-like (the message
\* says "React component") and under its category otherwise (the label of
\* the message).
C15_KeyIsComponentsOrCategory ==
    summary # NoSummary =>
        /\ SummaryTotals
        /\ \A k \in DOMAIN summary.violationsByType \cup
                   { "React Components" } \cup BatchTypes :
              LET counted ==
                    { i \in Failing(batch, config) :
                        IF batch[i].isReactComponent
                        THEN k = "React Components"
                        ELSE k = batch[i].type /\ k = MessageLabel(
                                 validateIdentifier(batch[i], config)) }
              IN  IF counted = {}
                  THEN k \notin DOMAIN summary.violationsByType
                  ELSE /\ k \in DOMAIN summary.violationsByType
                       /\ summary.violationsByType[k] = Cardinality(counted)

\* C15 witness: a batch with a component-like violation, a plain violation
\* and a valid identifier
C15_Witness ==
    /\ summary # NoSummary
    /\ summary.totalChecked = 2
    /\ summary.totalViolations = 2
    /\ DOMAIN summary.violationsByType = { "React Components", "function" }
    /\ MessageLabel(summary.violations[1]) = "React component"

\* ------------------------------------------------------------------------
\* Claims on the project analysis
\* ------------------------------------------------------------------------
\* the files of the run, in order: the matches of each pattern in turn
RECURSIVE FilesOf(_)
FilesOf(pats) ==
    IF pats = <<>> THEN <<>>
    ELSE [ i \in 1..Cardinality(pats[1]) |->
             CHOOSE f \in pats[1] :
                Cardinality({ g \in pats[1] :
                    \E m, n \in 1..Len(RelPaths) :
                        RelPaths[m] = g /\ RelPaths[n] = f /\ m <= n }) = i ]
         \o FilesOf(Tail(pats))

Succeeds(f) == disk[f].status = "parsed"

\* the identifiers of the files that succeed, in file order
RECURSIVE IdentifiersOfSucceeding(_)
IdentifiersOfSucceeding(fs) ==
    IF fs = <<>> THEN <<>>
    ELSE (IF Succeeds(fs[1])
          THEN LET ids == extractIdentifiersFromNode(disk[fs[1]].tree)
               IN  [ i \in 1..Len(ids) |->
                       [ filePath |-> << rootPath, fs[1] >> ] @@ ids[i] ]
          ELSE <<>>)
         \o IdentifiersOfSucceeding(Tail(fs))

HistogramCategories == { "variables", "functions", "classes", "constants" }

HistogramConventions ==
    { "CONSTANT_CASE", "PascalCase", "camelCase", "snake_case", "kebab-case", "mixed" }

\* C16: every file is processed, a failing file contributes nothing, and
\* the identifiers, the histograms and totalIdentifiers are those of the
\* files that succeed, in file order.
C16_FailingFilesSkipped ==
    project # NoProject =>
        LET expected == IdentifiersOfSucceeding(FilesOf(patterns))
        IN  /\ project.identifiers = expected
            /\ project.totalIdentifiers = Len(expected)
            /\ \A c \in HistogramCategories :
                  \A k \in HistogramConventions \cup DOMAIN project.conventions[c] :
                     LET n == Cardinality({ i \in 1..Len(expected) :
                                  /\ IdentifierCategory(expected[i]) = c
                                  /\ detectNamingConvention(expected[i].name) = k })
                     IN  IF n = 0
                         THEN k \notin DOMAIN project.conventions[c]
                         ELSE /\ k \in DOMAIN project.conventions[c]
                              /\ project.conventions[c][k] = n

\* C16 witness: a file whose walk throws between two files that succeed
C16_Witness ==
    /\ project # NoProject
    /\ patterns = << { "a.ts", "b.ts", "c.js" } >>
    /\ disk["a.ts"].status = "parsed"
    /\ disk["b.ts"].status = "throws"
    /\ disk["c.js"].status = "parsed"
    /\ disk["a.ts"].tree # disk["c.js"].tree
    /\ project.totalIdentifiers = 6
    /\ project.identifiers[1].filePath = << rootPath, "a.ts" >>
    /\ project.identifiers[6].filePath = << rootPath, "c.js" >>

\* ------------------------------------------------------------------------
\* Claims on the file checks
\* ------------------------------------------------------------------------
\* the base name of the file is an entry of the exceptions list
BaseNameListed ==
    \E i \in 1..Len(exceptions) : exceptions[i] = getBaseName(fname)

\* C17: a file whose base name is listed in exceptions is valid with no
\* expectedName, and its suggestion is the filename itself with
\* confidence 1.0.
C17_ExceptionsExempt ==
    BaseNameListed =>
        /\ validation # NoValidation =>
              /\ validation.isValid
              /\ validation.expectedName = Undefined
        /\ suggestion # NoSuggestion =>
              /\ suggestion.suggested = fname
              /\ suggestion.confidence = 10

\* ------------------------------------------------------------------------
\* Claims on the traversal
\* ------------------------------------------------------------------------
\* the nodes of a tree in pre-order, child arrays in array order
RECURSIVE PreOrder(_)
RECURSIVE PreOrderOfEach(_)
PreOrder(node) ==
    << node >> \o PreOrderOfEach(node.init \o node.declaration \o node.kids)

PreOrderOfEach(nodes) ==
    IF nodes = <<>> THEN <<>>
    ELSE PreOrder(nodes[1]) \o PreOrderOfEach(Tail(nodes))

\* what a node declares by itself: the name and the category
Declares(node) ==
    IF node.name = <<>> THEN <<>>
    ELSE IF node.type = "VariableDeclarator"
    THEN << << node.name,
               IF CONVENTION_PATTERNS("UPPER_SNAKE_CASE", node.name)
               THEN "constant" ELSE "variable" >> >>
    ELSE IF node.type = "FunctionDeclaration"
    THEN << << node.name, "function" >> >>
    ELSE IF node.type \in SimpleDeclarationTypes
    THEN << << node.name, SimpleCategory(node.type) >> >>
    ELSE <<>>

RECURSIVE DeclaredBy(_)
DeclaredBy(nodes) ==
    IF nodes = <<>> THEN <<>>
    ELSE Declares(nodes[1]) \o DeclaredBy(Tail(nodes))

\* no enum stands directly under an export node (the case of C8)
NoExportedEnum(nodes) ==
    \A n \in 1..Len(nodes) :
        (IsExportNode(nodes[n]) /\ nodes[n].declaration # <<>>) =>
            nodes[n].declaration[1].type # "TSEnumDeclaration"

\* C18: every named declaration of a recognized kind, however nested,
\* yields exactly one Identifier, and the Identifiers come in pre-order.
C18_EveryDeclarationInPreOrder ==
    (analyzed /\ NoExportedEnum(PreOrder(tree))) =>
        [ i \in 1..Len(identifiers) |->
            << identifiers[i].name, identifiers[i].type >> ]
          = DeclaredBy(PreOrder(tree))

\* C20: a declaration without position information yields its Identifier
\* with line 0 and column 0, and every other Identifier of the file is the
\* one the fully positioned file yields.
C20_MissingPositionIsZero ==
    analyzed =>
        LET nodes == PreOrder(tree)
            positioned == extractIdentifiersFromNode(Parsed(tree))
        IN  /\ Len(identifiers) = Len(positioned)
            /\ \A i \in 1..Len(positioned) :
                  identifiers[i] =
                    IF nodes[positioned[i].line].loc = <<>>
                    THEN [ positioned[i] EXCEPT !.line = 0, !.column = 0 ]
                    ELSE positioned[i]

\* C20 witness: the second of three Identifiers comes from a nested
\* declaration without a position
C20_Witness ==
    /\ analyzed
    /\ Len(identifiers) = 3
    /\ identifiers[1].line = 2
    /\ identifiers[2].line = 0
    /\ identifiers[2].column = 0
    /\ identifiers[3].line > 2
    /\ extractIdentifiersFromNode(Parsed(tree))[2].column > 0

\* C19: the traversal terminates on every finite tree, whatever the node
\* kinds and whichever of the fields parent, _parent, loc and range link a
\* node back to its parent.
C19_TraversalTerminates == <>(status = "returned")

\* C19 witness: a traversal that has returned from a tree of three levels
\* with an unknown node kind and back-links in all four fields, each node
\* entered once
C19_Witness ==
    /\ status = "returned"
    /\ heap.size >= 3
    /\ heap.parentOf[3] = 2
    /\ heap.kinds[2] = "Unknown"
    /\ heap.kinds[3] = "FunctionDeclaration"
    /\ heap.links = { "parent", "_parent", "loc", "range" }
    /\ Len(visited) = heap.size
    /\ 3 \in { found[i] : i \in 1..Len(found) }

\* ------------------------------------------------------------------------
\* Claims on the suggestions
\* ------------------------------------------------------------------------
\* C21: suggestFixes returns one alternative for each convention other than
\* the expected one whose conversion of the name differs from the name, and
\* nothing else.
C21_FixesAreTheOtherConversions ==
    fixes # NoFixes =>
        LET expected == IF identifier.isReactComponent THEN "PascalCase"
                        ELSE config[CategoryKey(identifier.type)]
            given == { fixes[i] : i \in 1..Len(fixes) }
        IN  /\ Cardinality(given) = Len(fixes)
            /\ given =
                 { << c, CodeValidator_convertToConvention(identifier.name, c) >> :
                     c \in { d \in NamingConvention \ { expected } :
                               CodeValidator_convertToConvention(identifier.name, d)
                                 # identifier.name } }
            /\ \A i \in 1..Len(fixes) :
                  /\ fixes[i][1] # expected
                  /\ fixes[i][2] # identifier.name

\* C21 witness: a name two of the other four conversions leave as it is
C21_Witness ==
    /\ fixes # NoFixes
    /\ identifier.name = << "a", "_", "b" >>
    /\ identifier.type = "variable"
    /\ ~identifier.isReactComponent
    /\ config.variables = "camelCase"
    /\ Len(fixes) = 3

\* the words of a base name, case ignored
LowerWords(base) ==
    LET words == extractWords(base)
    IN  [ i \in 1..Len(words) |-> toLowerCase(words[i]) ]

\* the letters of the words of a base name in one string, case ignored
JoinedLetters(base) == toLowerCase(Concat(extractWords(base), <<>>))

\* C22 as stated: confidence is 1.0 when the suggestion is the original;
\* otherwise 0.5, plus 0.3 if the word sequence of the suggested base name
\* equals that of the original base name case-insensitively, plus 0.2 if
\* the suggested base name matches the pattern; one of 0.5, 0.7, 0.8, 1.0.
C22_ConfidenceFromWordSequence ==
    suggestion # NoSuggestion =>
        /\ suggestion.confidence \in { 5, 7, 8, 10 }
        /\ suggestion.confidence =
             IF suggestion.suggested = fname THEN 10
             ELSE 5
                  + (IF LowerWords(getBaseName(suggestion.suggested))
                          = LowerWords(getBaseName(fname)) THEN 3 ELSE 0)
                  + (IF CONVENTION_PATTERNS(conv, getBaseName(suggestion.suggested))
                     THEN 2 ELSE 0)

\* C22 amended: the 0.3 is added when the words of the two base names,
\* written together without separators, are equal case-insensitively.
C22_ConfidenceFromJoinedWords ==
    suggestion # NoSuggestion =>
        /\ suggestion.confidence \in { 5, 7, 8, 10 }
        /\ suggestion.confidence =
             IF suggestion.suggested = fname THEN 10
             ELSE 5
                  + (IF JoinedLetters(getBaseName(suggestion.suggested))
                          = JoinedLetters(getBaseName(fname)) THEN 3 ELSE 0)
                  + (IF CONVENTION_PATTERNS(conv, getBaseName(suggestion.suggested))
                     THEN 2 ELSE 0)

\* C22 witness: a suggestion that differs from the original, keeps its
\* letters and misses the pattern
C22_Witness ==
    /\ suggestion # NoSuggestion
    /\ suggestion.suggested # fname
    /\ suggestion.confidence = 8
    /\ exceptions = <<>>

\* the base confidence: 1.0 for an unchanged name or an excepted file,
\* otherwise 0.5 with the two bonuses
BaseConfidence(name, convention) ==
    LET excepted == \E i \in 1..Len(exceptions) :
                        exceptions[i] = toLowerCase(getBaseName(name))
        suggested == IF excepted THEN name
                     ELSE convertToConvention(getBaseName(name), convention)
                          \o extname(name)
    IN  IF suggested = name THEN 10
        ELSE 5 + (IF JoinedLetters(getBaseName(suggested))
                       = JoinedLetters(getBaseName(name)) THEN 3 ELSE 0)
               + (IF CONVENTION_PATTERNS(convention, getBaseName(suggested))
                  THEN 2 ELSE 0)

\* C23: suggestMultipleNames returns five results, one per convention; the
\* primary convention has min(base + 0.2, 1.0), every other its base
\* confidence; no confidence exceeds 1.0; the list is in non-increasing
\* order of confidence.
C23_RankedSuggestions ==
    ranking # NoRanking =>
        /\ Len(ranking) = 5
        /\ { ranking[i].convention : i \in 1..5 } = NamingConvention
        /\ \A i \in 1..5 :
              /\ ranking[i].confidence <= 10
              /\ ranking[i].confidence =
                   LET base == BaseConfidence(fname, ranking[i].convention)
                   IN  IF ranking[i].convention = conv
                       THEN (IF base + 2 < 10 THEN base + 2 ELSE 10)
                       ELSE base
        /\ \A i \in 1..4 : ranking[i].confidence >= ranking[i + 1].confidence

\* C23 witness: the bonus, capped, lifts the last convention of the list
\* to the first place, ahead of conventions of a lower confidence
C23_Witness ==
    /\ ranking # NoRanking
    /\ conv = "UPPER_SNAKE_CASE"
    /\ BaseConfidence(fname, conv) = 8
    /\ ranking[1].convention = conv
    /\ ranking[1].confidence = 10
    /\ ranking[2].confidence = 8
    /\ ranking[5].confidence = 7
    /\ exceptions = <<>>

\* ------------------------------------------------------------------------
\* Claims on the consistency score
\* ------------------------------------------------------------------------
\* the identifiers of a category, and of a category and a convention
InCategory(ids, c) ==
    { i \in 1..Len(ids) : IdentifierCategory(ids[i]) = c }

InCategoryAs(ids, c, k) ==
    { i \in InCategory(ids, c) : detectNamingConvention(ids[i].name) = k }

\* the count of the most frequent convention of a category
MostFrequent(ids, c) ==
    LET sizes == { Cardinality(InCategoryAs(ids, c, k)) : k \in HistogramConventions }
    IN  CHOOSE m \in sizes : \A n \in sizes : n <= m

NonEmptyCategories(ids) ==
    { c \in HistogramCategories : InCategory(ids, c) # {} }

RECURSIVE ProductOfSizes(_, _)
ProductOfSizes(ids, cs) ==
    IF cs = {} THEN 1
    ELSE LET c == CHOOSE x \in cs : TRUE
         IN  Cardinality(InCategory(ids, c)) * ProductOfSizes(ids, cs \ { c })

\* the sum of MostFrequent / size over the categories cs, times d, where
\* every size divides d
RECURSIVE ScaledSum(_, _, _)
ScaledSum(ids, cs, d) ==
    IF cs = {} THEN 0
    ELSE LET c == CHOOSE x \in cs : TRUE
         IN  MostFrequent(ids, c) * (d \div Cardinality(InCategory(ids, c)))
             + ScaledSum(ids, cs \ { c }, d)

SingleConvention(ids, c) ==
    \E k \in HistogramConventions : InCategoryAs(ids, c, k) = InCategory(ids, c)

RECURSIVE LettersAndDigits(_)
LettersAndDigits(s) ==
    IF s = <<>> THEN <<>>
    ELSE (IF IsAlnum(s[1]) THEN << ToLowerChar(s[1]) >> ELSE <<>>)
         \o LettersAndDigits(Tail(s))

\* the characters of s appear in t in the same order
RECURSIVE AppearsInOrder(_, _)
AppearsInOrder(s, t) ==
    IF s = <<>> THEN TRUE
    ELSE IF t = <<>> THEN FALSE
    ELSE IF s[1] = t[1] THEN AppearsInOrder(Tail(s), Tail(t))
    ELSE AppearsInOrder(s, Tail(t))

EndsWith(s, suffix) ==
    /\ Len(suffix) <= Len(s)
    /\ SubSeq(s, Len(s) - Len(suffix) + 1, Len(s)) = suffix

\* C25: when validateName reports a filename invalid, expectedName ends
\* with the file's extension, and the letters and digits of the original
\* base name appear, in order and ignoring case, in what precedes the
\* extension, also for a filename with more than one dot.
C25_ExpectedNameKeepsWords ==
    (validation # NoValidation /\ ~validation.isValid) =>
        LET extension == getExtension(fname)
            expected == validation.expectedName
        IN  /\ EndsWith(expected, extension)
            /\ AppearsInOrder(
                   LettersAndDigits(getBaseName(fname)),
                   LettersAndDigits(SubSeq(expected, 1, Len(expected) - Len(extension))))

\* C25, for the names with at most one dot
C25_ExpectedNameKeepsWordsOfOneDot ==
    Cardinality({ i \in 1..Len(fname) : fname[i] = "." }) <= 1
        => C25_ExpectedNameKeepsWords


\* ------------------------------------------------------------------------
\* Claims on the suggested identifier
\* ------------------------------------------------------------------------
\* C26: when validateIdentifier reports a violation, suggestedName matches
\* the pattern of the expected convention, for every name over letters,
\* digits, '_' and '$' and every expected convention.
C26_SuggestionIsValid ==
    (outcome # NoOutcome /\ ~outcome.isValid /\ identifier.name # <<>>) =>
        validateConvention(outcome.suggestedName, outcome.expectedConvention)

\* C26, for the names that have a letter, begin with a letter and hold no '$'
C26_SuggestionOfPlainWordsIsValid ==
    (/\ identifier.name # <<>>
     /\ IsLower(identifier.name[1]) \/ IsUpper(identifier.name[1])
     /\ \A i \in 1..Len(identifier.name) : identifier.name[i] # "$")
        => C26_SuggestionIsValid

\* ------------------------------------------------------------------------
\* Claims on files matched by several patterns
\* ------------------------------------------------------------------------
MatchedFiles == { f \in RelPathSet : \E i \in 1..Len(patterns) : f \in patterns[i] }

\* the identifiers a file holds, as pairs of the file and the position
OwnIdentifiers(f) ==
    IF Succeeds(f)
    THEN { << f, i >> : i \in 1..Len(extractIdentifiersFromNode(disk[f].tree)) }
    ELSE {}

OwnIdentifiersOfMatched == UNION { OwnIdentifiers(f) : f \in MatchedFiles }

\* C29: each file contributes its identifiers exactly once to the
\* identifiers list, to the histograms and to totalIdentifiers, also when
\* it matches more than one of the patterns.
C29_EachFileOnce ==
    project # NoProject =>
        /\ \A f \in RelPathSet :
              Cardinality({ i \in 1..Len(project.identifiers) :
                              project.identifiers[i].filePath = << rootPath, f >> })
                  = IF f \in MatchedFiles THEN Cardinality(OwnIdentifiers(f)) ELSE 0
        /\ project.totalIdentifiers = Cardinality(OwnIdentifiersOfMatched)
        /\ \A c \in HistogramCategories :
              SumOfValues(project.conventions[c], DOMAIN project.conventions[c])
                  = Cardinality({ p \in OwnIdentifiersOfMatched :
                        IdentifierCategory(
                            extractIdentifiersFromNode(disk[p[1]].tree)[p[2]]) = c })

\* C29, for patterns of which no two match the same file
C29_EachFileOnceOfDisjointPatterns ==
    (\A i, j \in 1..Len(patterns) : i # j => patterns[i] \cap patterns[j] = {})
        => C29_EachFileOnce

\* ------------------------------------------------------------------------
\* Claims on the file watcher
\* ------------------------------------------------------------------------
\* the chokidar watchers of an object that are not closed
OpenWatchers(this) == { h \in 1..Len(this.handles) : ~this.handles[h].closed }

\* C28: after any sequence of start, stop and setFilePatterns at most one
\* underlying watcher is open and isWatching() is true exactly when one
\* is; start on a running watcher opens no second one, stop on a stopped
\* watcher emits nothing, stop on a running watcher emits 'stopped' once,
\* and setFilePatterns leaves a running watcher running, on a new
\* underlying watcher with the new patterns, and a stopped one stopped.
C28_OneWatcherAtMost ==
    /\ Cardinality(OpenWatchers(This)) <= 1
    /\ isWatching(This) <=> Cardinality(OpenWatchers(This)) = 1
    /\ isWatching(This) => start(This).handles = handles
    /\ ~isWatching(This) => stop(This).emitted = emitted
    /\ isWatching(This) =>
          /\ stop(This).emitted = Append(emitted, "stopped")
          /\ OpenWatchers(stop(This)) = {}
    /\ \A p \in PatternLists :
          LET after == setFilePatterns(This, p)
          IN  /\ after.filePatterns = p
              /\ isWatching(after) <=> isWatching(This)
              /\ Cardinality(OpenWatchers(after)) <= 1
              /\ isWatching(This) =>
                    /\ OpenWatchers(after) = { after.watcher }
                    /\ after.watcher \notin OpenWatchers(This)
                    /\ after.handles[after.watcher].patterns = p
                    /\ after.emitted = Append(emitted, "stopped")
              /\ ~isWatching(This) =>
                    /\ after.handles = handles
                    /\ after.emitted = emitted

\* C28 witness: start on a running watcher, then setFilePatterns with
\* other patterns, which closes the first watcher and opens a second
C28_Witness ==
    /\ console = << "File watcher is already running", "File watcher stopped" >>
    /\ Len(handles) = 2
    /\ handles[1].closed
    /\ handles[1].patterns # handles[2].patterns
    /\ handles[2].patterns = filePatterns
    /\ watcher = 2
    /\ emitted = << "stopped" >>

\* ------------------------------------------------------------------------
\* Claims on the configuration file
\* ------------------------------------------------------------------------
\* C30: saveConfig followed by loadConfig returns a configuration equal to
\* the one saved, for every NamingConfig whose conventions are valid, an
\* empty exceptions list included.
C30_ConfigRoundTrips ==
    (savedConfig # NotSaved /\ loadedConfig # NotLoaded) =>
        loadedConfig = savedConfig

\* C30, for the configurations that set every field and whose exceptions
\* list has an entry
C30_ConfigRoundTripsWhenFilled ==
    (/\ savedConfig # NotSaved
     /\ savedConfig.folders # NoFolders
     /\ savedConfig.exceptions \notin { NoExceptions, <<>> }
     /\ savedConfig.code # NoCode)
        => C30_ConfigRoundTrips

\* ------------------------------------------------------------------------
\* Claims on the rename command
\* ------------------------------------------------------------------------
\* the files the directory held when the command started
FilesAtStart ==
    { directory[n] : n \in DOMAIN directory }
    \cup { renamed[i].replaced : i \in { j \in 1..Len(renamed) :
                                           renamed[j].replaced # Nothing } }

\* C27: no rename of a run, interactive or forced, targets a path that
\* holds another file or that an earlier rename of the run produced, and
\* the directory holds as many files after the run as before.
C27_RenameDestroysNoFile ==
    /\ \A i \in 1..Len(renamed) :
          /\ renamed[i].replaced = Nothing
          /\ \A j \in 1..(i - 1) : renamed[j].newName # renamed[i].newName
    /\ Cardinality(DOMAIN directory) = Cardinality(FilesAtStart)

\* C27, for the runs whose renames have new names that differ from each
\* other and from every name the directory held at the start
C27_RenameDestroysNoFileWhenNamesAreFree ==
    (/\ \A i, j \in 1..Len(filesToRename) :
           i # j => filesToRename[i].newName # filesToRename[j].newName
     /\ \A i \in 1..Len(filesToRename) :
           filesToRename[i].newName \notin FilesAtStart)
        => C27_RenameDestroysNoFile

============================================================================
